---- MODULE Spec2Model ----
(***************************************************************************)
(* Model of ClipForge (noahwilliamshaffer/AiVideoEditor).                  *)
(*                                                                         *)
(*   - DatabaseManager (src/src/database/db_manager.py): the SQLite        *)
(*     transcription cache, specification SpecCache.                       *)
(*   - VideoProcessor (src/src/video_processor.py): the stage methods of   *)
(*     the processing pipeline, specification SpecProcessor.               *)
(***************************************************************************)
EXTENDS Integers, Sequences, FiniteSets, TLC

(***************************************************************************)
(* Bounds of the model.                                                    *)
(***************************************************************************)
\* rows ever inserted into transcription_cache (committed cache_transcription calls)
MaxPuts == 3
\* steps of the wall clock
MaxAdvances == 2

(***************************************************************************)
(* Python values.  None of a string-typed field is the string "None"; a    *)
(* value that is a dict, a list or None is a record tagged with its type.  *)
(***************************************************************************)
None == "None"
PyNone == [py |-> "NoneType"]

\* a transcript (the dict Whisper returns) and a captions array (a list of dicts)
PyDict(b) == [py |-> "dict", body |-> b]
PyList(b) == [py |-> "list", body |-> b]

\* json.dumps: a dict becomes an object text, a list (or tuple) an array text
json_dumps(v) ==
    [js |-> IF v.py = "dict" THEN "object" ELSE "array", body |-> v.body]

\* json.loads: an object text becomes a dict, an array text a list
json_loads(s) ==
    [py |-> IF s.js = "object" THEN "dict" ELSE "list", body |-> s.body]

(***************************************************************************)
(* DatabaseManager: the transcription cache.                               *)
(***************************************************************************)
\* concurrent pipeline runs, each with its own connection per call
Runs == {"r1", "r2"}
Hashes == {"h1", "h2"}
Models == {"tiny", "base"}
Filenames == {"clip.mp4"}
\* what one caller passes as (transcript_data, captions_data)
Values == { [transcript |-> PyDict(i), captions |-> PyList(i)] : i \in {1, 2} }

\* SQLite's 'N days' modifier, in seconds (created_at has second resolution)
SecondsPerDay == 86400
\* cleanup_old_cache(self, days: int = 30)
DefaultDays == 30
\* the steps the clock takes: a second, thirty days
ClockSteps == {1, 30 * SecondsPerDay}
\* the calls of cleanup_old_cache: with a days argument, or with none
DaysArgs == {[given |-> TRUE, days |-> d] : d \in {0, 1}} \cup {[given |-> FALSE]}

VARIABLES
    transcription_cache,  \* the committed rows of table transcription_cache
    cache_seq,            \* sqlite_sequence of the table (AUTOINCREMENT)
    db_lock,              \* the run whose connection holds the write lock, or None
    db_pc,                \* per run: where its current DatabaseManager call stands
    db_args,              \* per run: the arguments of its call in progress
    db_txn,               \* per run: the uncommitted table of its open transaction
    db_last,              \* the call that returned last, and what it returned
    now,                  \* the wall clock, in seconds
    advances,             \* clock steps taken
    write_log,            \* history: the last two committed write transactions
    last_write            \* history: per key, when it was last written (-1: never)

cacheVars == <<transcription_cache, cache_seq, db_lock, db_pc, db_args, db_txn,
               db_last, now, advances, write_log, last_write>>

NoArgs == [op |-> "none"]
NoTxn == [open |-> FALSE]

CacheInit ==
    /\ transcription_cache = {}
    /\ cache_seq = 0
    /\ db_lock = None
    /\ db_pc = [r \in Runs |-> "idle"]
    /\ db_args = [r \in Runs |-> NoArgs]
    /\ db_txn = [r \in Runs |-> NoTxn]
    /\ db_last = [op |-> "none"]
    /\ now = 0
    /\ advances = 0
    /\ write_log = <<>>
    /\ last_write = [k \in Hashes \X Models |-> -1]

\* the last two entries of the write history
Last2(log) == IF Len(log) <= 2 THEN log ELSE SubSeq(log, Len(log) - 1, Len(log))

\* mutant of UniqueConflicts: the table has no UNIQUE column
UniqueConflicts_none(tbl, row) == {}

\* UNIQUE constraints of transcription_cache: the rows a new row conflicts with
UniqueConflicts(tbl, row) == {x \in tbl : x.file_hash = row.file_hash}

\* mutant of InsertOrReplace: an update in place that writes the transcript
\* column only and leaves the captions of an existing row
InsertOrReplace_merge(tbl, seq, file_hash, filename, model_used, transcript_data, captions_data, t) ==
    LET old == {x \in tbl : x.file_hash = file_hash}
        row == [id |-> seq + 1, file_hash |-> file_hash, filename |-> filename,
                model_used |-> model_used,
                transcript_data |-> json_dumps(transcript_data),
                captions_data |-> json_dumps(captions_data),
                created_at |-> t]
    IN  IF old = {}
        THEN tbl \cup {row}
        ELSE (tbl \ old) \cup
             {[x EXCEPT !.transcript_data = json_dumps(transcript_data),
                        !.model_used = model_used, !.created_at = t] : x \in old}

\* INSERT OR REPLACE INTO transcription_cache (...) VALUES (...): the rows that
\* conflict on a UNIQUE column are deleted, the new row gets a fresh id and
\* created_at = CURRENT_TIMESTAMP
InsertOrReplace(tbl, seq, file_hash, filename, model_used, transcript_data, captions_data, t) ==
    LET row == [id |-> seq + 1, file_hash |-> file_hash, filename |-> filename,
                model_used |-> model_used,
                transcript_data |-> json_dumps(transcript_data),
                captions_data |-> json_dumps(captions_data),
                created_at |-> t]
    IN  (tbl \ UniqueConflicts(tbl, row)) \cup {row}

\* SELECT ... WHERE file_hash = ? AND model_used = ?
SelectRows(tbl, file_hash, model_used) ==
    {x \in tbl : x.file_hash = file_hash /\ x.model_used = model_used}

\* the dict get_cached_transcription builds from a row
CachedEntry(row) ==
    [py |-> "dict", transcript |-> json_loads(row.transcript_data),
     captions |-> json_loads(row.captions_data), cached_at |-> row.created_at]

\* what get_cached_transcription can return on a table when nothing fails:
\* fetchone() gives one of the matching rows, or None when there is none
GetResults(tbl, file_hash, model_used) ==
    IF SelectRows(tbl, file_hash, model_used) = {}
    THEN {PyNone}
    ELSE {CachedEntry(x) : x \in SelectRows(tbl, file_hash, model_used)}

\* mutant of DeleteOld: the comparison is <= instead of <
DeleteOld_inclusive(tbl, days, t) ==
    {x \in tbl : ~(x.created_at <= t - days * SecondsPerDay)}

\* DELETE FROM transcription_cache WHERE created_at < datetime('now', '-N days')
DeleteOld(tbl, days, t) ==
    {x \in tbl : ~(x.created_at < t - days * SecondsPerDay)}

\* the days parameter of cleanup_old_cache, with its default
cleanup_days(arg) == IF arg.given THEN arg.days ELSE DefaultDays

\* what a caller is left with: the call's arguments (of a write, only its
\* kind) and its outcome
CallOf(a) == IF a.op = "put" THEN [op |-> "put"] ELSE a

\* the call returns normally
Returned(a, v) == [op |-> a.op, args |-> CallOf(a), fault |-> FALSE, raised |-> FALSE, value |-> v]

\* except Exception in cache_transcription: logged, return False
cache_transcription_except(a) ==
    [op |-> a.op, args |-> CallOf(a), fault |-> TRUE, raised |-> FALSE, value |-> FALSE]

\* mutant of get_cached_transcription_except: the exception is raised again,
\* as init_database does
get_cached_transcription_reraise(a) ==
    [op |-> a.op, args |-> CallOf(a), fault |-> TRUE, raised |-> TRUE, value |-> PyNone]

\* except Exception in get_cached_transcription: logged, return None
get_cached_transcription_except(a) ==
    [op |-> a.op, args |-> CallOf(a), fault |-> TRUE, raised |-> FALSE, value |-> PyNone]

\* except Exception in cleanup_old_cache: logged, the method ends
cleanup_old_cache_except(a) ==
    [op |-> a.op, args |-> CallOf(a), fault |-> TRUE, raised |-> FALSE, value |-> PyNone]

\* cache_transcription is called: get_connection() opens a connection
PutCall(r, hashes, models) ==
    /\ db_pc[r] = "idle"
    /\ cache_seq + Cardinality({q \in Runs : db_pc[q] # "idle"}) < MaxPuts
    /\ \E h \in hashes, f \in Filenames, m \in models, v \in Values :
         LET others == {q \in Runs \ {r} : /\ db_pc[q] \in {"put_called", "put_exec"}
                                           /\ db_args[q].file_hash = h
                                           /\ db_args[q].model_used = m}
         IN  /\ db_args' = [q \in Runs |->
                   IF q = r
                   THEN [op |-> "put", file_hash |-> h, filename |-> f,
                         model_used |-> m, value |-> v, overlap |-> others # {}]
                   ELSE IF q \in others
                        THEN [db_args[q] EXCEPT !.overlap = TRUE]
                        ELSE db_args[q]]
             /\ db_pc' = [db_pc EXCEPT ![r] = "put_called"]
    /\ UNCHANGED <<transcription_cache, cache_seq, db_lock, db_txn, db_last, now,
                   advances, write_log, last_write>>

\* cursor.execute(INSERT OR REPLACE ...): takes the write lock (waiting while
\* another connection holds it) and changes the connection's view of the table
PutExecute(r) ==
    /\ db_pc[r] = "put_called"
    /\ db_lock = None
    /\ db_lock' = r
    /\ db_txn' = [db_txn EXCEPT ![r] =
           [open |-> TRUE,
            tbl |-> InsertOrReplace(transcription_cache, cache_seq,
                        db_args[r].file_hash, db_args[r].filename,
                        db_args[r].model_used, db_args[r].value.transcript,
                        db_args[r].value.captions, now),
            seq |-> cache_seq + 1, at |-> now]]
    /\ db_pc' = [db_pc EXCEPT ![r] = "put_exec"]
    /\ UNCHANGED <<transcription_cache, cache_seq, db_args, db_last, now, advances,
                   write_log, last_write>>

\* conn.commit(): the transaction becomes the committed table; return True
PutCommit(r) ==
    /\ db_pc[r] = "put_exec"
    /\ transcription_cache' = db_txn[r].tbl
    /\ cache_seq' = db_txn[r].seq
    /\ db_lock' = None
    /\ db_txn' = [db_txn EXCEPT ![r] = NoTxn]
    /\ db_pc' = [db_pc EXCEPT ![r] = "idle"]
    /\ db_args' = [db_args EXCEPT ![r] = NoArgs]
    /\ db_last' = Returned(db_args[r], TRUE)
    /\ write_log' = Last2(Append(write_log, db_args[r]))
    /\ last_write' = [last_write EXCEPT
           ![<<db_args[r].file_hash, db_args[r].model_used>>] = db_txn[r].at]
    /\ UNCHANGED <<now, advances>>

\* an sqlite3 error anywhere in cache_transcription (cannot connect, database
\* is locked, disk I/O error, commit fails): conn.close() rolls the open
\* transaction back and the except clause answers
PutFails(r) ==
    /\ db_pc[r] \in {"put_called", "put_exec"}
    /\ db_lock' = IF db_lock = r THEN None ELSE db_lock
    /\ db_txn' = [db_txn EXCEPT ![r] = NoTxn]
    /\ db_pc' = [db_pc EXCEPT ![r] = "idle"]
    /\ db_args' = [db_args EXCEPT ![r] = NoArgs]
    /\ db_last' = cache_transcription_except(db_args[r])
    /\ UNCHANGED <<transcription_cache, cache_seq, now, advances, write_log,
                   last_write>>

\* get_cached_transcription: one SELECT on the committed table
GetCached(r, hashes, models) ==
    /\ db_pc[r] = "idle"
    /\ \E h \in hashes, m \in models :
         LET a == [op |-> "get", file_hash |-> h, model_used |-> m]
         IN  \/ \E res \in GetResults(transcription_cache, h, m) :
                   db_last' = Returned(a, res)
             \/ db_last' = get_cached_transcription_except(a)
    /\ UNCHANGED <<transcription_cache, cache_seq, db_lock, db_pc, db_args, db_txn,
                   now, advances, write_log, last_write>>

\* cleanup_old_cache: one DELETE in its own transaction, committed at once
CleanupOldCache(r) ==
    /\ db_pc[r] = "idle"
    /\ \E d \in DaysArgs :
         LET a == [op |-> "cleanup", days |-> d]
         IN  \/ /\ db_lock = None
                /\ transcription_cache' =
                       DeleteOld(transcription_cache, cleanup_days(d), now)
                /\ db_last' = Returned(a, PyNone)
                /\ write_log' =
                       IF transcription_cache' = transcription_cache
                       THEN write_log
                       ELSE Last2(Append(write_log, a))
             \/ /\ db_last' = cleanup_old_cache_except(a)
                /\ UNCHANGED <<transcription_cache, write_log>>
    /\ UNCHANGED <<cache_seq, db_lock, db_pc, db_args, db_txn, now, advances,
                   last_write>>

\* time passes
AdvanceClock ==
    /\ advances < MaxAdvances
    /\ \E d \in ClockSteps : now' = now + d
    /\ advances' = advances + 1
    /\ UNCHANGED <<transcription_cache, cache_seq, db_lock, db_pc, db_args, db_txn,
                   db_last, write_log, last_write>>

(***************************************************************************)
(* DatabaseManager: the processing history and the running statistics.     *)
(* Every statement runs on a connection of its own call and is committed   *)
(* at once, so a statement with its commit is one step; the steps of       *)
(* concurrent calls interleave.                                            *)
(***************************************************************************)
\* the features a run can name, and the lists of them a caller passes
Features == {"captions", "effects"}
FeatureLists == {<<>>, <<"captions">>, <<"effects">>, <<"captions", "effects">>}
\* processing_time arguments, in seconds
ProcessingTimes == {3}

\* most calls of add_processing_record in one behaviour
MaxRecords == 3

VARIABLES
    processing_history,  \* the committed rows of table processing_history, by id
    app_statistics,      \* the committed rows of table app_statistics, by id
    hist_pc,             \* per run: where its add_processing_record call stands
    hist_args,           \* per run: the arguments of its call and its record_id
    hist_row,            \* per run: the row its update_statistics fetched
    hist_last,           \* the call that returned last, and what it returned
    hist_calls           \* calls of add_processing_record made

histVars == <<processing_history, app_statistics, hist_pc, hist_args, hist_row,
              hist_last, hist_calls>>

\* cursor.fetchone() found no row
NoRow == [found |-> FALSE]

HistInit ==
    /\ processing_history = <<>>
    /\ app_statistics = <<>>
    /\ hist_pc = [r \in Runs |-> "idle"]
    /\ hist_args = [r \in Runs |-> NoArgs]
    /\ hist_row = [r \in Runs |-> NoRow]
    /\ hist_last = [op |-> "none"]
    /\ hist_calls = 0

\* INSERT INTO processing_history: id is the AUTOINCREMENT key, status takes
\* its column default
HistoryRow(id, filename, processing_time, features_used) ==
    [id |-> id, filename |-> filename, processing_time |-> processing_time,
     features_used |-> json_dumps(PyList(features_used)), status |-> "completed"]

\* SELECT * FROM app_statistics ORDER BY id DESC LIMIT 1, fetchone()
LastStatistics(tbl) ==
    IF tbl = <<>> THEN NoRow ELSE [found |-> TRUE, row |-> tbl[Len(tbl)]]

\* current_usage.get(feature, 0)
UsageOf(usage, feature) == IF feature \in DOMAIN usage THEN usage[feature] ELSE 0

\* for feature in features_used: current_usage[feature] = current_usage.get(feature, 0) + 1
RECURSIVE CountFeatures(_, _)
CountFeatures(usage, features_used) ==
    IF features_used = <<>> THEN usage
    ELSE LET feature == Head(features_used)
         IN  CountFeatures((feature :> UsageOf(usage, feature) + 1) @@ usage,
                           Tail(features_used))

\* the UPDATE of update_statistics, computed from the fetched row
UpdatedStatistics(row, processing_time, features_used) ==
    [id |-> row.id,
     videos_processed |-> row.videos_processed + 1,
     total_processing_time |-> row.total_processing_time + processing_time,
     features_usage |->
         json_dumps(PyDict(CountFeatures(json_loads(row.features_usage).body,
                                         features_used)))]

\* the INSERT of update_statistics: the first record
FirstStatistics(id, processing_time, features_used) ==
    [id |-> id, videos_processed |-> 1, total_processing_time |-> processing_time,
     features_usage |-> json_dumps(PyDict(CountFeatures(<<>>, features_used)))]

\* UPDATE app_statistics ... WHERE id = ?
UpdateRow(tbl, row) == [i \in 1..Len(tbl) |-> IF tbl[i].id = row.id THEN row ELSE tbl[i]]

\* get_statistics: the latest row with its usage decoded, or the zero record
get_statistics(tbl) ==
    IF LastStatistics(tbl).found
    THEN [videos_processed |-> LastStatistics(tbl).row.videos_processed,
          total_processing_time |-> LastStatistics(tbl).row.total_processing_time,
          features_usage |-> json_loads(LastStatistics(tbl).row.features_usage).body]
    ELSE [videos_processed |-> 0, total_processing_time |-> 0, features_usage |-> <<>>]

\* add_processing_record returns record_id
RecordAdded(a) == [op |-> "add_processing_record", raised |-> FALSE, value |-> a.record_id]

\* except Exception in add_processing_record: logged, raised again
add_processing_record_except == [op |-> "add_processing_record", raised |-> TRUE, value |-> PyNone]

\* add_processing_record is called: the INSERT and its commit, then
\* update_statistics is entered
AddProcessingRecord(r) ==
    /\ hist_pc[r] = "idle"
    /\ hist_calls < MaxRecords
    /\ \E f \in Filenames, t \in ProcessingTimes, u \in FeatureLists :
         LET record_id == Len(processing_history) + 1
         IN  /\ processing_history' =
                    Append(processing_history, HistoryRow(record_id, f, t, u))
             /\ hist_args' = [hist_args EXCEPT ![r] =
                    [op |-> "add_processing_record", processing_time |-> t,
                     features_used |-> u, record_id |-> record_id]]
    /\ hist_pc' = [hist_pc EXCEPT ![r] = "inserted"]
    /\ hist_calls' = hist_calls + 1
    /\ UNCHANGED <<app_statistics, hist_row, hist_last>>

\* an sqlite3 error before the INSERT is committed: nothing is written and
\* the except clause raises it again
AddProcessingRecordFails(r) ==
    /\ hist_pc[r] = "idle"
    /\ hist_calls < MaxRecords
    /\ hist_last' = add_processing_record_except
    /\ hist_calls' = hist_calls + 1
    /\ UNCHANGED <<processing_history, app_statistics, hist_pc, hist_args, hist_row>>

\* update_statistics: the SELECT of the current statistics
UpdateStatisticsSelect(r) ==
    /\ hist_pc[r] = "inserted"
    /\ hist_row' = [hist_row EXCEPT ![r] = LastStatistics(app_statistics)]
    /\ hist_pc' = [hist_pc EXCEPT ![r] = "selected"]
    /\ UNCHANGED <<processing_history, app_statistics, hist_args, hist_last, hist_calls>>

\* update_statistics: the UPDATE of the fetched row, or the INSERT of the
\* first record, and its commit; add_processing_record returns
UpdateStatisticsWrite(r) ==
    /\ hist_pc[r] = "selected"
    /\ app_statistics' =
           IF hist_row[r].found
           THEN UpdateRow(app_statistics,
                          UpdatedStatistics(hist_row[r].row, hist_args[r].processing_time,
                                            hist_args[r].features_used))
           ELSE Append(app_statistics,
                       FirstStatistics(Len(app_statistics) + 1,
                                       hist_args[r].processing_time,
                                       hist_args[r].features_used))
    /\ hist_last' = RecordAdded(hist_args[r])
    /\ hist_pc' = [hist_pc EXCEPT ![r] = "idle"]
    /\ hist_args' = [hist_args EXCEPT ![r] = NoArgs]
    /\ hist_row' = [hist_row EXCEPT ![r] = NoRow]
    /\ UNCHANGED <<processing_history, hist_calls>>

\* an sqlite3 error in update_statistics: its except clause only logs, and
\* add_processing_record returns the record_id
UpdateStatisticsFails(r) ==
    /\ hist_pc[r] \in {"inserted", "selected"}
    /\ hist_last' = RecordAdded(hist_args[r])
    /\ hist_pc' = [hist_pc EXCEPT ![r] = "idle"]
    /\ hist_args' = [hist_args EXCEPT ![r] = NoArgs]
    /\ hist_row' = [hist_row EXCEPT ![r] = NoRow]
    /\ UNCHANGED <<processing_history, app_statistics, hist_calls>>

(***************************************************************************)
(* VideoProcessor: the stage methods.                                      *)
(***************************************************************************)
\* the files a caller may pass to load_video
VideoFiles == {"a.mp4", "zero.mp4", "neg.mp4", "bad.mp4"}
MissingFile == "nonexistent.mp4"
LoadArgs == VideoFiles \cup {MissingFile}

\* int(cap.get(cv2.CAP_PROP_FRAME_COUNT))
ProbeFrameCount(path) == 900

\* int(cap.get(cv2.CAP_PROP_FRAME_WIDTH)), int(cap.get(cv2.CAP_PROP_FRAME_HEIGHT))
ProbeWidth(path) == 1920
ProbeHeight(path) == 1080

\* a Python float that is the quotient n / d, kept as a fraction in lowest terms
RECURSIVE Gcd(_, _)
Gcd(a, b) == IF b = 0 THEN a ELSE Gcd(b, a % b)
Quotient(n, d) == IF n = 0 THEN <<0, 1>> ELSE <<n \div Gcd(n, d), d \div Gcd(n, d)>>

\* mutant: the division is not guarded, the quotient is left as n / fps
Duration_unguarded(frame_count, fps_) == <<frame_count, fps_>>

\* frame_count / self.fps if self.fps > 0 else 0
Duration(frame_count, fps_) == IF fps_ > 0 THEN Quotient(frame_count, fps_) ELSE <<0, 1>>

\* tempfile.mkstemp(suffix=...): the n-th temporary file of the process
TmpWav == <<"/tmp/t1.wav", "/tmp/t2.wav", "/tmp/t3.wav", "/tmp/t4.wav",
            "/tmp/t5.wav", "/tmp/t6.wav", "/tmp/t7.wav", "/tmp/t8.wav">>
TmpSrt == <<"/tmp/t1.srt", "/tmp/t2.srt", "/tmp/t3.srt", "/tmp/t4.srt",
            "/tmp/t5.srt", "/tmp/t6.srt", "/tmp/t7.srt", "/tmp/t8.srt">>
TmpMp4 == <<"/tmp/t1.mp4", "/tmp/t2.mp4", "/tmp/t3.mp4", "/tmp/t4.mp4",
            "/tmp/t5.mp4", "/tmp/t6.mp4", "/tmp/t7.mp4", "/tmp/t8.mp4">>
mkstemp(n, suffix) ==
    CASE suffix = ".wav" -> TmpWav[n + 1]
      [] suffix = ".srt" -> TmpSrt[n + 1]
      [] OTHER -> TmpMp4[n + 1]

\* os.path.join(output_dir, f"clipforge_output_{timestamp}.mp4") with
\* output_dir = config.OUTPUT_DIR and timestamp = int(time.time())
ExportNames == <<"./output/clipforge_output_0.mp4", "./output/clipforge_output_1.mp4",
                 "./output/clipforge_output_2.mp4", "./output/clipforge_output_3.mp4",
                 "./output/clipforge_output_4.mp4", "./output/clipforge_output_5.mp4">>
FinalOutput(timestamp) == ExportNames[timestamp + 1]

\* str.strip() of a text given as its sequence of characters
IsSpace(c) == c \in {" ", "\n", "\t"}
RECURSIVE LStrip(_)
LStrip(t) == IF t # <<>> /\ IsSpace(Head(t)) THEN LStrip(Tail(t)) ELSE t
RECURSIVE RStrip(_)
RStrip(t) ==
    IF t # <<>> /\ IsSpace(t[Len(t)]) THEN RStrip(SubSeq(t, 1, Len(t) - 1)) ELSE t
Strip(t) == RStrip(LStrip(t))

\* segments of a Whisper result; times and log-probabilities in thousandths
Seg1 == [start |-> 0, end |-> 2000, text |-> <<" ", "H", "i">>,
         has_logprob |-> TRUE, avg_logprob |-> -500]
Seg2 == [start |-> 2000, end |-> 3500, text |-> <<"o", "k", " ">>,
         has_logprob |-> FALSE, avg_logprob |-> 0]
\* what whisper_model.transcribe can return
WhisperResults ==
    { [py |-> "dict", segments |-> ss] : ss \in {<<>>, <<Seg1, Seg2>>} }

\* the caption built from one segment (lines 151-156)
CaptionOf(segment) ==
    [start |-> segment.start, end |-> segment.end, text |-> Strip(segment.text),
     confidence |-> IF segment.has_logprob THEN segment.avg_logprob ELSE 0]

\* the loop over result["segments"]
CaptionsOf(result) == [i \in 1..Len(result.segments) |-> CaptionOf(result.segments[i])]

VARIABLES
    video_path, audio_path, transcript, captions, output_path, temp_files,
    duration, fps, width, height,   \* the fields of VideoProcessor
    files,        \* the file system: path -> content, the history of the content
    tmp_count,    \* temporary files created so far
    clock,        \* time.time(), in whole seconds
    ret,          \* the last stage call and its outcome
    run_failed,   \* history: a stage call has failed since the last load_video call
    transcribed   \* history: the model the current audio file was last transcribed
                  \* with, None when it was not

procFields == <<video_path, audio_path, transcript, captions, output_path, temp_files,
                duration, fps, width, height>>
procVars == <<procFields, files, tmp_count, clock, ret, run_failed, transcribed>>

\* temporary files one process may create
MaxTemp == 6
\* temporary files created when the stage methods are called in any order
MaxTempFree == 3
\* temporary files created by the transforming stages of one run
MaxTempRun == 4
\* seconds the clock may advance
MaxClock == 1
\* unlink calls that may fail in one cleanup()
MaxUnlinkFailures == 1

\* the files of the emoji and sound libraries that are on disk: the placeholder
\* of an emoji is made at start-up unless that fails, sounds are supplied or not
AssetFiles == {"assets/emojis/fire.png", "assets/sounds/ding.wav"}

\* the content of an input video, of a library file, is the file itself
\* a second well-formed video, for a processor that is used again
SecondVideo == "b.mp4"

InitFiles == [p \in VideoFiles \cup {SecondVideo} \cup AssetFiles |-> <<p>>]

ProcInit ==
    /\ video_path = None
    /\ audio_path = None
    /\ transcript = PyNone
    /\ captions = <<>>
    /\ output_path = None
    /\ temp_files = <<>>
    /\ duration = <<0, 1>>
    /\ fps = 0
    /\ width = 0
    /\ height = 0
    /\ files = InitFiles
    /\ tmp_count = 0
    /\ clock = 0
    /\ ret = [op |-> "none", outcome |-> "none"]
    /\ run_failed = FALSE
    /\ transcribed = None

Exists(path) == path # None /\ path \in DOMAIN files

\* the input video the content of a file was made from, None for no content
Source(path) == IF Exists(path) /\ files[path] # <<>> THEN files[path][1] ELSE None

\* cv2.VideoCapture(path).isOpened()
IsOpened(path) == Source(path) \notin {None, "bad.mp4"}

\* cap.get(cv2.CAP_PROP_FPS)
ProbeFps(path) ==
    CASE Source(path) = "a.mp4" -> 30
      [] Source(path) = SecondVideo -> 25
      [] Source(path) = "zero.mp4" -> 0
      [] OTHER -> -1
WriteFile(fs, path, content) == (path :> content) @@ fs
\* mutant: the deletion takes the exported files with it
RemoveFiles_with_exports(fs, paths) == [q \in (DOMAIN fs) \ (paths \cup {ExportNames[i] : i \in 1..Len(ExportNames)}) |-> fs[q]]

\* os.unlink of each of paths
RemoveFiles(fs, paths) == [q \in (DOMAIN fs) \ paths |-> fs[q]]

\* the outcome of a call: it returned its result (True, for load_video)
Ok(op) == [op |-> op, outcome |-> "ok"]
\* load_video caught an exception and returned False
ReturnedFalse(op) == [op |-> op, outcome |-> "false"]
\* the guard at the head of a stage raised ValueError: the stage is not entered
Rejected(op) == [op |-> op, outcome |-> "rejected"]
\* the except clause of a stage logged an exception and raised it again
Reraised(op) == [op |-> op, outcome |-> "raised"]

\* load_video(video_path)
LoadVideo(path) ==
      /\ \/ /\ ~Exists(path)
            \* FileNotFoundError, caught: return False
            /\ ret' = ReturnedFalse("load_video")
            /\ run_failed' = TRUE
            /\ UNCHANGED <<video_path, duration, fps, width, height>>
         \/ /\ Exists(path) /\ ~IsOpened(path)
            \* self.video_path is already assigned when ValueError is raised
            /\ video_path' = path
            /\ ret' = ReturnedFalse("load_video")
            /\ run_failed' = TRUE
            /\ UNCHANGED <<duration, fps, width, height>>
         \/ /\ Exists(path) /\ IsOpened(path)
            /\ video_path' = path
            /\ fps' = ProbeFps(path)
            /\ width' = ProbeWidth(path)
            /\ height' = ProbeHeight(path)
            /\ duration' = Duration(ProbeFrameCount(path), ProbeFps(path))
            /\ ret' = Ok("load_video")
            /\ run_failed' = FALSE
      /\ UNCHANGED <<audio_path, transcript, captions, output_path, temp_files, files,
                     tmp_count, clock, transcribed>>

\* mutants of the guards: the check is missing
no_guard == FALSE

\* if not self.video_path: raise ValueError("No video loaded")
extract_audio_guard == video_path = None
\* if not self.audio_path: raise ValueError(...)
transcribe_audio_guard == audio_path = None
\* if not self.captions: raise ValueError(...)
add_captions_guard == captions = <<>>
\* if not self.output_path and not self.video_path: raise ValueError(...)
apply_meme_effects_guard == output_path = None /\ video_path = None
\* if not self.output_path: raise ValueError(...)
export_video_guard == output_path = None

\* extract_audio()
ExtractAudio ==
    \/ /\ extract_audio_guard
       /\ ret' = Rejected("extract_audio")
       /\ run_failed' = TRUE
       /\ UNCHANGED <<procFields, files, tmp_count, clock, transcribed>>
    \/ /\ ~extract_audio_guard
       /\ tmp_count < MaxTemp
       /\ LET wav == mkstemp(tmp_count, ".wav")
          IN  /\ audio_path' = wav
              /\ temp_files' = Append(temp_files, wav)
              /\ tmp_count' = tmp_count + 1
              /\ \/ \* ffmpeg writes the audio track of the video
                    /\ Exists(video_path)
                    /\ files' = WriteFile(files, wav, Append(files[video_path], "audio"))
                    /\ ret' = Ok("extract_audio")
                    /\ UNCHANGED run_failed
                 \/ \* ffmpeg fails: the empty file stays, the error is raised again
                    /\ files' = WriteFile(files, wav, <<>>)
                    /\ ret' = Reraised("extract_audio")
                    /\ run_failed' = TRUE
       /\ transcribed' = None
       /\ UNCHANGED <<video_path, transcript, captions, output_path, duration, fps, width,
                      height, clock>>

\* transcribe_audio(model)
TranscribeAudio(model) ==
      \/ /\ transcribe_audio_guard
         /\ ret' = Rejected("transcribe_audio")
         /\ run_failed' = TRUE
         /\ UNCHANGED <<procFields, files, tmp_count, clock, transcribed>>
      \/ /\ ~transcribe_audio_guard
         /\ \/ \E result \in WhisperResults :
                 \* Whisper is loaded and run on the audio file
                 /\ Exists(audio_path) /\ files[audio_path] # <<>>
                 /\ transcript' = result
                 /\ captions' = CaptionsOf(result)
                 /\ ret' = Ok("transcribe_audio")
                 /\ transcribed' = model
                 /\ UNCHANGED run_failed
            \/ \* load_model or transcribe raises: logged and raised again
               /\ ret' = Reraised("transcribe_audio")
               /\ run_failed' = TRUE
               /\ UNCHANGED <<transcript, captions, transcribed>>
         /\ UNCHANGED <<video_path, audio_path, output_path, temp_files, duration, fps,
                        width, height, files, tmp_count, clock>>

\* add_captions(style)
AddCaptions ==
    \/ /\ add_captions_guard
       /\ ret' = Rejected("add_captions")
       /\ run_failed' = TRUE
       /\ UNCHANGED <<procFields, files, tmp_count, clock, transcribed>>
    \/ /\ ~add_captions_guard
       /\ tmp_count + 1 < MaxTemp
       /\ LET srt == mkstemp(tmp_count, ".srt")
              out == mkstemp(tmp_count + 1, ".mp4")
          IN  \/ \* writing the subtitle file fails: only it was created
                 /\ temp_files' = Append(temp_files, srt)
                 /\ tmp_count' = tmp_count + 1
                 /\ files' = WriteFile(files, srt, <<>>)
                 /\ ret' = Reraised("add_captions")
                 /\ run_failed' = TRUE
                 /\ UNCHANGED output_path
              \/ \* ffmpeg burns the subtitles into self.video_path
                 /\ Exists(video_path)
                 /\ temp_files' = temp_files \o <<srt, out>>
                 /\ tmp_count' = tmp_count + 2
                 /\ files' = WriteFile(WriteFile(files, srt, <<"srt">>), out,
                                       Append(files[video_path], "captions"))
                 /\ output_path' = out
                 /\ ret' = Ok("add_captions")
                 /\ UNCHANGED run_failed
              \/ \* ffmpeg fails: both files stay, self.output_path is not assigned
                 /\ temp_files' = temp_files \o <<srt, out>>
                 /\ tmp_count' = tmp_count + 2
                 /\ files' = WriteFile(WriteFile(files, srt, <<"srt">>), out, <<>>)
                 /\ ret' = Reraised("add_captions")
                 /\ run_failed' = TRUE
                 /\ UNCHANGED output_path
       /\ UNCHANGED <<video_path, audio_path, transcript, captions, duration, fps, width,
                      height, clock, transcribed>>

\* the detections of an apply_meme_effects() call of VideoProcessor: the method
\* takes no argument and the class computes no detection
ProcessorDetections == <<>>

\* apply_meme_effects() of VideoProcessor.  (Line 248 repeats the keyword
\* argument map=; the model follows the statements of the method as written.)
ApplyMemeEffects ==
    \/ /\ apply_meme_effects_guard
       /\ ret' = Rejected("apply_meme_effects")
       /\ run_failed' = TRUE
       /\ UNCHANGED <<procFields, files, tmp_count, clock, transcribed>>
    \/ /\ ~apply_meme_effects_guard
       /\ tmp_count < MaxTemp
       /\ LET input_path == IF output_path # None THEN output_path ELSE video_path
              meme_output == mkstemp(tmp_count, ".mp4")
          IN  /\ temp_files' = Append(temp_files, meme_output)
              /\ tmp_count' = tmp_count + 1
              /\ \/ /\ Exists(input_path)
                    /\ files' = WriteFile(files, meme_output,
                                          Append(files[input_path], "meme"))
                    /\ output_path' = meme_output
                    /\ ret' = Ok("apply_meme_effects")
                    /\ UNCHANGED run_failed
                 \/ /\ files' = WriteFile(files, meme_output, <<>>)
                    /\ ret' = Reraised("apply_meme_effects")
                    /\ run_failed' = TRUE
                    /\ UNCHANGED output_path
       /\ UNCHANGED <<video_path, audio_path, transcript, captions, duration, fps, width,
                      height, clock, transcribed>>

\* export_video(): output_dir is config.OUTPUT_DIR
ExportVideo ==
    \/ /\ export_video_guard
       /\ ret' = Rejected("export_video")
       /\ run_failed' = TRUE
       /\ UNCHANGED <<procFields, files, tmp_count, clock, transcribed>>
    \/ /\ ~export_video_guard
       /\ LET final_output == FinalOutput(clock)
          IN  \/ \* shutil.copy2(self.output_path, final_output)
                 /\ Exists(output_path)
                 /\ files' = WriteFile(files, final_output, files[output_path])
                 /\ ret' = Ok("export_video")
                 /\ UNCHANGED run_failed
              \/ \* makedirs or copy2 raises: logged and raised again
                 /\ ret' = Reraised("export_video")
                 /\ run_failed' = TRUE
                 /\ UNCHANGED files
       /\ UNCHANGED <<procFields, tmp_count, clock, transcribed>>

\* mutant: no try/except around os.unlink, the first failure ends the call
Cleanup_unguarded ==
    /\ \E kept \in SUBSET {temp_files[i] : i \in 1..Len(temp_files)} :
         /\ Cardinality(kept) <= MaxUnlinkFailures
         /\ files' = RemoveFiles(files, {temp_files[i] : i \in 1..Len(temp_files)} \ kept)
         /\ temp_files' = IF kept = {} THEN <<>> ELSE temp_files
         /\ ret' = IF kept = {} THEN Ok("cleanup") ELSE Reraised("cleanup")
    /\ UNCHANGED <<video_path, audio_path, transcript, captions, output_path, duration,
                   fps, width, height, tmp_count, clock, run_failed, transcribed>>

\* cleanup(): every registered file that exists is unlinked, a failing unlink
\* is logged; then temp_files is cleared
Cleanup ==
    /\ \E kept \in SUBSET {temp_files[i] : i \in 1..Len(temp_files)} :
         /\ Cardinality(kept) <= MaxUnlinkFailures
         /\ files' = RemoveFiles(files, {temp_files[i] : i \in 1..Len(temp_files)} \ kept)
    /\ temp_files' = <<>>
    /\ ret' = Ok("cleanup")
    /\ UNCHANGED <<video_path, audio_path, transcript, captions, output_path, duration,
                   fps, width, height, tmp_count, clock, run_failed, transcribed>>

\* a second passes
Tick ==
    /\ clock < MaxClock
    /\ clock' = clock + 1
    /\ UNCHANGED <<procFields, files, tmp_count, ret, run_failed, transcribed>>

(***************************************************************************)
(* app.py: process_video, the pipeline run on one uploaded file with the   *)
(* VideoProcessor kept in st.session_state.                                *)
(***************************************************************************)
VARIABLES
    processing_status,  \* st.session_state.processing_status
    app_pc,             \* the statement process_video stands at, "idle" outside it
    temp_path,          \* the temporary copy of the uploaded file
    options,            \* the uploaded file and the check boxes of the run
    runs,               \* process_video calls so far
    failed_at           \* history: the first stage call of the run that failed

appVars == <<processing_status, app_pc, temp_path, options, runs, failed_at>>

\* process_video calls in one session
MaxRuns == 2

\* the content of the uploaded file and the options chosen in the page
Uploads == {"a.mp4", "bad.mp4"}
OptionSets == [upload : Uploads, auto_caption : BOOLEAN, meme_mode : BOOLEAN]

AppInit ==
    /\ processing_status = "ready"
    /\ app_pc = "idle"
    /\ temp_path = None
    /\ options = [upload |-> "a.mp4", auto_caption |-> FALSE, meme_mode |-> FALSE]
    /\ runs = 0
    /\ failed_at = None

\* the statement after load_video, after add_captions: the if chain of lines 150-171
AfterLoad(o) ==
    IF o.auto_caption THEN "extract_audio"
    ELSE IF o.meme_mode THEN "apply_meme_effects" ELSE "export_video"
AfterCaptions(o) == IF o.meme_mode THEN "apply_meme_effects" ELSE "export_video"

\* the button is pressed: process_video starts, sets the status and calls
\* st.rerun(), which ends the script run under a script runner (its exception
\* is not an Exception) and returns without one
PvStart ==
    /\ app_pc = "idle"
    /\ processing_status # "processing"
    /\ runs < MaxRuns
    /\ runs' = runs + 1
    /\ processing_status' = "processing"
    /\ \E o \in OptionSets : options' = o
    /\ failed_at' = None
    /\ \/ app_pc' = "idle"
       \/ app_pc' = "save"
    /\ UNCHANGED <<temp_path, procVars>>

\* except Exception: the status becomes "error" and process_video returns
PvExcept ==
    /\ processing_status' = "error"
    /\ app_pc' = "idle"

\* the uploaded file is written to a NamedTemporaryFile(delete=False)
PvSave ==
    /\ app_pc = "save"
    /\ tmp_count < MaxTemp
    /\ tmp_count' = tmp_count + 1
    /\ LET tmp_file == mkstemp(tmp_count, ".mp4")
       IN  \/ /\ files' = WriteFile(files, tmp_file, <<options.upload>>)
              /\ temp_path' = tmp_file
              /\ app_pc' = "load_video"
              /\ UNCHANGED processing_status
           \/ \* the write fails: the file stays, temp_path is not assigned
              /\ files' = WriteFile(files, tmp_file, <<>>)
              /\ PvExcept
              /\ UNCHANGED temp_path
    /\ UNCHANGED <<options, runs, failed_at, procFields, clock, ret, run_failed,
                   transcribed>>

\* processor.load_video(temp_path): the value returned is not looked at
PvLoad ==
    /\ app_pc = "load_video"
    /\ LoadVideo(temp_path)
    /\ app_pc' = AfterLoad(options)
    /\ failed_at' = IF ret'.outcome # "ok" THEN "load_video" ELSE failed_at
    /\ UNCHANGED <<processing_status, temp_path, options, runs>>

\* what follows a stage call: the next statement, or the except clause when
\* the call raised
PvAfter(op, next) ==
    /\ IF ret'.outcome = "ok"
         THEN app_pc' = next /\ UNCHANGED <<processing_status, failed_at>>
         ELSE PvExcept /\ failed_at' = IF failed_at = None THEN op ELSE failed_at
    /\ UNCHANGED <<temp_path, options, runs>>

PvExtractAudio ==
    /\ app_pc = "extract_audio"
    /\ ExtractAudio
    /\ PvAfter("extract_audio", "transcribe_audio")

PvTranscribeAudio ==
    /\ app_pc = "transcribe_audio"
    /\ \E model \in Models : TranscribeAudio(model)
    /\ PvAfter("transcribe_audio", "add_captions")

PvAddCaptions ==
    /\ app_pc = "add_captions"
    /\ AddCaptions
    /\ PvAfter("add_captions", AfterCaptions(options))

PvApplyMemeEffects ==
    /\ app_pc = "apply_meme_effects"
    /\ ApplyMemeEffects
    /\ PvAfter("apply_meme_effects", "export_video")

\* output_path = processor.export_video(); the status becomes "completed"
PvExportVideo ==
    /\ app_pc = "export_video"
    /\ ExportVideo
    /\ IF ret'.outcome = "ok"
         THEN /\ app_pc' = "download"
              /\ processing_status' = "completed"
              /\ UNCHANGED failed_at
         ELSE /\ PvExcept
              /\ failed_at' = IF failed_at = None THEN "export_video" ELSE failed_at
    /\ UNCHANGED <<temp_path, options, runs>>

\* the exported file is read for the download button, then os.unlink(temp_path)
PvFinish ==
    /\ app_pc = "download"
    /\ \/ /\ files' = RemoveFiles(files, {temp_path})
          /\ app_pc' = "idle"
          /\ UNCHANGED processing_status
       \/ \* open, read or unlink raises
          /\ PvExcept
          /\ UNCHANGED files
    /\ UNCHANGED <<temp_path, options, runs, failed_at, procFields, tmp_count, clock,
                   ret, run_failed, transcribed>>

(***************************************************************************)
(* MemeEffectsProcessor (src/src/effects/meme_processor.py): the effect    *)
(* engine.  An effect tag is the string name, or name_id when id is not    *)
(* empty, kept as the pair of both parts.                                  *)
(***************************************************************************)
VARIABLES
    mp_temp_files,  \* self.temp_files of the MemeEffectsProcessor
    mp_pc,          \* the statement apply_meme_effects stands at
    mp_args,        \* video_path and meme_detections of the call
    mp_current,     \* current_video
    mp_output,      \* output_path, the file made at the head of the call
    mp_ret,         \* the value the last call returned
    mp_caught,      \* the exception the except clause of the call caught, or None
    mp_log          \* history: the sub-steps of the call, with input and result

mpVars == <<mp_temp_files, mp_pc, mp_args, mp_current, mp_output, mp_ret, mp_caught,
            mp_log>>

Tag(name, id) == [name |-> name, id |-> id]

\* self.emoji_library and self.sound_library: key -> path
EmojiLibrary == (Tag("emoji", "fire") :> "assets/emojis/fire.png") @@
                (Tag("emoji", "clap") :> "assets/emojis/clap.png")
SoundLibrary == (Tag("sound", "ding") :> "assets/sounds/ding.wav") @@
                (Tag("sound", "whoosh") :> "assets/sounds/whoosh.wav")

\* the order of the if statements in the loop body
EffectOrder == <<"zoom", "emoji", "sound", "slowmo", "text">>

\* the condition of the if statement of one sub-effect: the exact tag for
\* zoom, slowmo and text, a tag that starts with the name for emoji and sound
Wants(suggested_effects, effect) ==
    \E j \in 1..Len(suggested_effects) :
        /\ suggested_effects[j].name = effect
        /\ effect \in {"emoji", "sound"} \/ suggested_effects[j].id = ""

\* mutant: the sub-effects are run in the order of the tags
StepsOf_tag_order(detection) ==
    [j \in 1..Len(detection.suggested_effects) |-> detection.suggested_effects[j].name]

\* the sub-effects the loop body runs for one detection, in its order
StepsOf(detection) ==
    LET Test(effect) == Wants(detection.suggested_effects, effect)
    IN  SelectSeq(EffectOrder, Test)

\* next(e for e in suggested_effects if e.startswith(name))
FirstTag(suggested_effects, name) ==
    LET js == {j \in 1..Len(suggested_effects) : suggested_effects[j].name = name}
    IN  suggested_effects[CHOOSE j \in js : \A l \in js : j <= l]

\* the library file a sub-effect needs: None when the key is not in the
\* library, "" when the sub-effect needs no file
ResourceOf(detection, effect) ==
    LET key == FirstTag(detection.suggested_effects, effect)
    IN  CASE effect = "emoji" ->
                 IF key \in DOMAIN EmojiLibrary THEN EmojiLibrary[key] ELSE None
          [] effect = "sound" ->
                 IF key \in DOMAIN SoundLibrary THEN SoundLibrary[key] ELSE None
          [] OTHER -> ""

\* detections: tags out of order, a library emoji with a sound, the tags of
\* the keyword fallback, an emoji that is not in the library, a tag no
\* sub-effect knows
Detections ==
    { [timestamp |-> 1, suggested_effects |-> <<Tag("text", ""), Tag("zoom", "")>>],
      [timestamp |-> 2, suggested_effects |-> <<Tag("emoji", "fire"), Tag("sound", "ding")>>],
      [timestamp |-> 3, suggested_effects |-> <<Tag("zoom", ""), Tag("emoji", "")>>],
      [timestamp |-> 4, suggested_effects |-> <<Tag("slowmo", ""), Tag("emoji", "clap")>>],
      [timestamp |-> 5, suggested_effects |-> <<Tag("shake", "")>>] }

\* detections in one call
MaxDetections == 2

DetectionLists == UNION {[1..n -> Detections] : n \in 0..MaxDetections}

\* the sub-steps a call runs
RECURSIVE TotalSteps(_)
TotalSteps(dets) ==
    IF dets = <<>> THEN 0 ELSE Len(StepsOf(Head(dets))) + TotalSteps(Tail(dets))

MpIdle == [at |-> "idle"]

MpInit ==
    /\ mp_temp_files = <<>>
    /\ mp_pc = MpIdle
    /\ mp_args = [video_path |-> None, meme_detections |-> <<>>]
    /\ mp_current = None
    /\ mp_output = None
    /\ mp_ret = None
    /\ mp_caught = None
    /\ mp_log = <<>>

\* the first detection from index i on for which the loop body runs a sub-step
RECURSIVE FirstDet(_, _)
FirstDet(dets, i) ==
    IF i > Len(dets) \/ StepsOf(dets[i]) # <<>> THEN i ELSE FirstDet(dets, i + 1)

\* where the call stands when the loop is at detection i, sub-step k
MpAt(dets, i, k) ==
    IF i > Len(dets) THEN [at |-> "copy"] ELSE [at |-> "step", i |-> i, k |-> k]

\* apply_meme_effects(video_path, meme_detections), up to the loop
MpCall(video, dets) ==
    /\ mp_pc = MpIdle
    /\ mp_log' = <<>>
    /\ mp_caught' = None
    /\ mp_args' = [video_path |-> video, meme_detections |-> dets]
    /\ IF dets = <<>>
         THEN \* if not meme_detections: return video_path
              /\ mp_ret' = video
              /\ UNCHANGED <<mp_temp_files, mp_pc, mp_current, mp_output, files, tmp_count>>
         ELSE /\ tmp_count + 1 + TotalSteps(dets) <= MaxTemp
              /\ LET output_path_ == mkstemp(tmp_count, ".mp4")
                 IN  /\ mp_output' = output_path_
                     /\ mp_temp_files' = Append(mp_temp_files, output_path_)
                     /\ files' = WriteFile(files, output_path_, <<>>)
              /\ tmp_count' = tmp_count + 1
              /\ mp_current' = video
              /\ mp_pc' = MpAt(dets, FirstDet(dets, 1), 1)
              /\ UNCHANGED mp_ret
    /\ UNCHANGED <<procFields, clock, ret, run_failed, transcribed>>

\* mutant: only the library key is looked up, not the file
Missing_key_only(resource) == resource = None

\* if not emoji_path or not os.path.exists(emoji_path), and the same for a
\* sound: the library has no such key or its file is missing
Missing(resource) == resource = None \/ (resource # "" /\ ~Exists(resource))

\* mutant: a sub-step whose ffmpeg run failed returns the file it made
AfterFailure_output(video_path_, output_path_) == output_path_

\* the except clause of a sub-step: return video_path
AfterFailure(video_path_, output_path_) == video_path_

\* one sub-step: _apply_zoom_effect, _apply_emoji_overlay, _apply_sound_effect,
\* _apply_slowmo_effect or _apply_text_overlay on current_video
MpSubStep ==
    /\ mp_pc.at = "step"
    /\ LET dets == mp_args.meme_detections
           detection == dets[mp_pc.i]
           steps == StepsOf(detection)
           effect == steps[mp_pc.k]
           output_path_ == mkstemp(tmp_count, ".mp4")
           resource == ResourceOf(detection, effect)
           Returns(path, outcome) ==
               /\ mp_current' = path
               /\ mp_log' = Append(mp_log, [det |-> mp_pc.i, effect |-> effect,
                                            input |-> mp_current, result |-> path,
                                            outcome |-> outcome])
       IN  /\ mp_temp_files' = Append(mp_temp_files, output_path_)
           /\ tmp_count' = tmp_count + 1
           /\ \/ \* the library has no such key or its file is missing
                 /\ Missing(resource)
                 /\ files' = WriteFile(files, output_path_, <<>>)
                 /\ Returns(mp_current, "skipped")
              \/ \* ffmpeg writes the new video
                 /\ ~Missing(resource)
                 /\ Exists(mp_current)
                 /\ files' = WriteFile(files, output_path_, Append(files[mp_current], effect))
                 /\ Returns(output_path_, "done")
              \/ \* ffmpeg fails: caught, the sub-step returns its input
                 /\ ~Missing(resource)
                 /\ files' = WriteFile(files, output_path_, <<>>)
                 /\ Returns(AfterFailure(mp_current, output_path_), "failed")
           /\ mp_pc' = IF mp_pc.k < Len(steps)
                        THEN MpAt(dets, mp_pc.i, mp_pc.k + 1)
                        ELSE MpAt(dets, FirstDet(dets, mp_pc.i + 1), 1)
    /\ UNCHANGED <<mp_args, mp_output, mp_ret, mp_caught, procFields, clock, ret,
                   run_failed, transcribed>>

\* the end of the call: the result is copied to output_path.  shutil is
\* imported in the first branch only, so the else branch raises
\* UnboundLocalError, which the except clause turns into return video_path
MpFinish ==
    /\ mp_pc.at = "copy"
    /\ mp_pc' = MpIdle
    /\ IF mp_current # mp_args.video_path
         THEN \/ /\ Exists(mp_current)
                 /\ files' = WriteFile(files, mp_output, files[mp_current])
                 /\ mp_ret' = mp_output
                 /\ UNCHANGED mp_caught
              \/ \* copy2 raises
                 /\ mp_ret' = mp_args.video_path
                 /\ mp_caught' = "OSError"
                 /\ UNCHANGED files
         ELSE /\ mp_ret' = mp_args.video_path
              /\ mp_caught' = "UnboundLocalError"
              /\ UNCHANGED files
    /\ UNCHANGED <<mp_temp_files, mp_args, mp_current, mp_output, mp_log, procFields,
                   tmp_count, clock, ret, run_failed, transcribed>>

(***************************************************************************)
(* Functions of the program applied to one input: fn_in is the input,      *)
(* fn_out the value computed from it.                                      *)
(***************************************************************************)
VARIABLES fn_in, fn_out

fnVars == <<fn_in, fn_out>>

\* no function has been applied
NoCall == [fn |-> "none"]
FnInit == fn_in = NoCall /\ fn_out = NoCall

\* largest frame count and frame rate probed, besides 900 frames at 30 fps
MaxFrameCount == 8
MaxFps == 5

\* what cap.get can report for CAP_PROP_FRAME_COUNT and CAP_PROP_FPS
FrameCounts == 0..MaxFrameCount \cup {900}
FpsValues == (0 - 2)..MaxFps \cup {30}

\* the probe of load_video: self.fps, frame_count and self.duration
ProbeInit ==
    /\ fn_in \in {[fn |-> "duration", frame_count |-> n, fps |-> f] :
                      n \in FrameCounts, f \in FpsValues}
    /\ fn_out = NoCall

ComputeDuration ==
    /\ fn_in.fn = "duration" /\ fn_out = NoCall
    /\ fn_out' = [fn |-> "duration", value |-> Duration(fn_in.frame_count, fn_in.fps)]
    /\ UNCHANGED fn_in

(***************************************************************************)
(* _seconds_to_srt_time.  A time is the float nearest to k thousandths of  *)
(* a second, k a whole number: the double k/1000 + delta, delta the error  *)
(* of rounding to 53 bits.  The arithmetic below is exact on integers.     *)
(***************************************************************************)
RECURSIVE Pow2(_)
Pow2(n) == IF n <= 0 THEN 1 ELSE 2 * Pow2(n - 1)

\* 2^e mod m
RECURSIVE Pow2Mod(_, _)
Pow2Mod(e, m) == IF e = 0 THEN 1 % m ELSE (2 * Pow2Mod(e - 1, m)) % m

\* floor(log2(x)) of a whole number x >= 1
RECURSIVE Log2(_)
Log2(x) == IF x < 2 THEN 0 ELSE 1 + Log2(x \div 2)

\* the exponent of the double k/1000: the largest E with 2^E <= k/1000
RECURSIVE ExponentBelow(_, _)
ExponentBelow(k, e) == IF k * Pow2(e) >= 1000 THEN 0 - e ELSE ExponentBelow(k, e + 1)
Exponent(k) == IF k >= 1000 THEN Log2(k \div 1000) ELSE ExponentBelow(k, 1)

\* the rounding error delta of the double nearest to k/1000, in thousandths
\* of its unit in the last place 2^(E-52): round to nearest, ties to even
RoundingError(k) ==
    LET q == 52 - Exponent(k)
        t2 == ((k % 2000) * Pow2Mod(q, 2000)) % 2000
        t == t2 % 1000
    IN  IF t = 0 THEN 0
        ELSE IF t < 500 \/ (t = 500 /\ t2 < 1000) THEN 0 - t
        ELSE 1000 - t

\* int((seconds % 1) * 1000): seconds % 1 is exact, the product r + 1000 delta
\* is rounded to a double again and the cast cuts the fraction off, so the
\* result is r - 1 when the product rounds to a double below r
Millisecs(k) ==
    LET r == k % 1000
        err == RoundingError(k)
        j == Log2(r)
        \* half the distance of r to the double below it is 2^(j-53), or
        \* 2^(j-54) when r is a power of two; d compares it with the error
        d == Exponent(k) + (IF r = Pow2(j) THEN 2 ELSE 1) - j
        below == IF d >= 0 THEN (0 - err) * Pow2(IF d > 10 THEN 10 ELSE d) > 1
                 ELSE (0 - err) > Pow2(IF 0 - d > 10 THEN 10 ELSE 0 - d)
    IN  IF r = 0 \/ err >= 0 THEN r
        ELSE IF below THEN r - 1 ELSE r

\* _seconds_to_srt_time(seconds): the fields of the text HH:MM:SS,mmm
seconds_to_srt_time(k) ==
    [hh |-> (k \div 1000) \div 3600, mm |-> ((k \div 1000) % 3600) \div 60,
     ss |-> (k \div 1000) % 60, mmm |-> Millisecs(k)]

\* largest time converted, in thousandths, besides the times of the tests
MaxMillis == 2400

\* the times converted: every thousandth up to MaxMillis and 65.25 s, 3661.75 s
SrtTimes == 0..MaxMillis \cup {65250, 3661750}

SrtTimeInit ==
    /\ fn_in \in {[fn |-> "seconds_to_srt_time", seconds |-> k] : k \in SrtTimes}
    /\ fn_out = NoCall

SecondsToSrtTime ==
    /\ fn_in.fn = "seconds_to_srt_time" /\ fn_out = NoCall
    /\ fn_out' = [fn |-> "seconds_to_srt_time", value |-> seconds_to_srt_time(fn_in.seconds)]
    /\ UNCHANGED fn_in

(***************************************************************************)
(* The subtitle file add_captions writes.  A caption text is the sequence  *)
(* of its lines; the file is the sequence of the lines written.  A line is *)
(* kept by what it reads as: a number, two times, other text, or nothing.  *)
(***************************************************************************)
\* the texts that are numbers, and their numbers
NumberTexts == ("1" :> 1) @@ ("2" :> 2) @@ ("3" :> 3) @@ ("4" :> 4)

\* f"{i}\n"
IndexLine(i) == [line |-> "number", n |-> i]
\* f"{start_time} --> {end_time}\n"
TimeLine(start_time, end_time) == [line |-> "times", start |-> start_time, end |-> end_time]
\* "\n"
BlankLine == [line |-> "blank"]
\* one line of caption['text'] as it stands in the file
TextLine(str) ==
    IF str = "" THEN BlankLine
    ELSE IF str \in DOMAIN NumberTexts THEN IndexLine(NumberTexts[str])
    ELSE [line |-> "text", s |-> str]

\* the three writes of the loop body for caption number i
SrtEntry(i, caption) ==
    <<IndexLine(i),
      TimeLine(seconds_to_srt_time(caption.start), seconds_to_srt_time(caption.end))>>
        \o [j \in 1..Len(caption.text) |-> TextLine(caption.text[j])]
        \o <<BlankLine>>

\* for i, caption in enumerate(self.captions, 1)
RECURSIVE SrtFile(_, _)
SrtFile(captions_, i) ==
    IF i > Len(captions_) THEN <<>>
    ELSE SrtEntry(i, captions_[i]) \o SrtFile(captions_, i + 1)

\* the decoder of the subtitle format: entries are delimited by blank lines;
\* an entry is a number line, a line of two times and the lines of the text
SecondsOf(time) == ((time.hh * 60 + time.mm) * 60 + time.ss) * 1000 + time.mmm

LineText(l) ==
    IF l.line = "number" THEN CHOOSE str \in DOMAIN NumberTexts : NumberTexts[str] = l.n
    ELSE l.s

\* the first blank line from line i on, or the end of the file
RECURSIVE TextEnd(_, _)
TextEnd(lines, i) ==
    IF i > Len(lines) \/ lines[i] = BlankLine THEN i ELSE TextEnd(lines, i + 1)

RECURSIVE ReadSrt(_, _)
ReadSrt(lines, i) ==
    IF i > Len(lines) THEN [ok |-> TRUE, captions |-> <<>>]
    ELSE IF lines[i] = BlankLine THEN ReadSrt(lines, i + 1)
    ELSE IF i + 1 > Len(lines) \/ lines[i].line # "number" \/ lines[i + 1].line # "times"
    THEN [ok |-> FALSE, captions |-> <<>>]
    ELSE LET e == TextEnd(lines, i + 2)
             rest == ReadSrt(lines, e)
             text == IF e = i + 2 THEN <<"">>
                     ELSE [j \in 1..(e - i - 2) |-> LineText(lines[i + 1 + j])]
         IN  [ok |-> rest.ok,
              captions |-> <<[start |-> SecondsOf(lines[i + 1].start),
                              end |-> SecondsOf(lines[i + 1].end), text |-> text]>>
                               \o rest.captions]

\* the times of captions, in thousandths of a second
CaptionTimes == {0, 1500, 2340, 65250}

\* caption texts as lines: one line, the empty text, two lines, a text with
\* an empty line in it, a text that is a number
SubtitleTexts == {<<"Hi">>, <<"">>, <<"a", "b">>, <<"a", "", "b">>, <<"2">>}

SubtitleCaptions ==
    {[start |-> t1, end |-> t2, text |-> x] :
        t1 \in CaptionTimes, t2 \in CaptionTimes, x \in SubtitleTexts}

\* captions in one subtitle file
MaxSubtitles == 2

SubtitleInit ==
    /\ fn_in \in {[fn |-> "write_srt", captions |-> c] :
                      c \in UNION {[1..n -> {x \in SubtitleCaptions : x.end > x.start}] :
                                       n \in 1..MaxSubtitles}}
    /\ fn_out = NoCall

\* the loop of add_captions that writes the subtitle file
WriteSrt ==
    /\ fn_in.fn = "write_srt" /\ fn_out = NoCall
    /\ fn_out' = [fn |-> "write_srt", value |-> SrtFile(fn_in.captions, 1)]
    /\ UNCHANGED fn_in

(***************************************************************************)
(* _get_caption_filter.  A force_style text is the sequence of its         *)
(* key=value parts; a value is the sequence of the pieces it is made of.   *)
(***************************************************************************)
\* config.CAPTION_FONT_SIZE and config.CAPTION_FONT_COLOR as the environment
\* can set them
FontSizes == {"16", "24", "32"}
FontColors == {"white", "#FFFFFF", "#FFFF00"}

\* config.CAPTION_FONT_COLOR.replace('#', '')
RemoveHash(color) ==
    CASE color = "#FFFFFF" -> "FFFFFF"
      [] color = "#FFFF00" -> "FFFF00"
      [] OTHER -> color

\* the styles dict of _get_caption_filter
Styles(font_size, font_color) ==
    [Standard |-> [force_style |-> << <<"FontSize", <<font_size>> >>,
                                      <<"PrimaryColour", <<"&H", RemoveHash(font_color)>> >> >>],
     TikTok |-> [force_style |-> << <<"FontSize", <<"32">> >>, <<"Bold", <<"1">> >>,
                                    <<"PrimaryColour", <<"&H", "FFFFFF">> >>,
                                    <<"OutlineColour", <<"&H", "000000">> >>,
                                    <<"Outline", <<"2">> >> >>],
     YouTube |-> [force_style |-> << <<"FontSize", <<"28">> >>,
                                     <<"PrimaryColour", <<"&H", "FFFFFF">> >>,
                                     <<"BackColour", <<"&H", "80000000">> >> >>],
     Custom |-> [force_style |-> << <<"FontSize", <<font_size>> >>,
                                    <<"PrimaryColour", <<"&H", RemoveHash(font_color)>> >> >>]]

\* mutant: a style that is not in the dict gets the TikTok entry
StyleDefault_other(styles) == styles["TikTok"]

\* the default of styles.get: styles["Standard"]
StyleDefault(styles) == styles["Standard"]

\* _get_caption_filter(style): styles.get(style, styles["Standard"])
get_caption_filter(style, font_size, font_color) ==
    LET styles == Styles(font_size, font_color)
    IN  IF style \in DOMAIN styles THEN styles[style] ELSE StyleDefault(styles)

\* the style names passed: the four of the dict, other spellings, other names
StyleNames == {"Standard", "TikTok", "YouTube", "Custom", "standard", "tiktok", "Vlog", ""}

CaptionFilterInit ==
    /\ fn_in \in {[fn |-> "get_caption_filter", style |-> st, font_size |-> fs, font_color |-> fc] :
                      st \in StyleNames, fs \in FontSizes, fc \in FontColors}
    /\ fn_out = NoCall

GetCaptionFilter ==
    /\ fn_in.fn = "get_caption_filter" /\ fn_out = NoCall
    /\ fn_out' = [fn |-> "get_caption_filter",
                  value |-> get_caption_filter(fn_in.style, fn_in.font_size, fn_in.font_color)]
    /\ UNCHANGED fn_in

(***************************************************************************)
(* ContentAnalyzer (src/src/ai/content_analyzer.py).  A text is a sequence *)
(* of characters; a response text of the service is a sequence of tokens:  *)
(* a prose word, an opening or a closing bracket, or a JSON value that has *)
(* no bracket inside (the separators of an array are left out).  Numbers   *)
(* are counted in tenths.                                                  *)
(***************************************************************************)
JNumber(n) == [json |-> "number", n |-> n]
JString(s) == [json |-> "string", s |-> s]
JNull == [json |-> "null"]
\* a key the object does not have
Absent == [json |-> "absent"]
JObject(timestamp, duration_, confidence, meme_type) ==
    [json |-> "object",
     fields |-> [timestamp |-> timestamp, duration |-> duration_,
                 confidence |-> confidence, meme_type |-> meme_type]]

\* the exception a Python expression raised
Raised == [json |-> "raised"]

\* a str object
Str(body) == [py |-> "str", body |-> body]

Word == [tok |-> "word"]
Open == [tok |-> "["]
Close == [tok |-> "]"]
Val(v) == [tok |-> "value", value |-> v]

\* item.get(key, default): AttributeError when the item is no dict
Get(item, key, default) ==
    IF item.json # "object" THEN Raised
    ELSE IF item.fields[key] = Absent THEN default ELSE item.fields[key]

\* strings float() accepts
NumericStrings == {"0.9"}
NumberOf(str) == 9

\* float(v): TypeError for None, ValueError for a string that is no number
Float(v) ==
    CASE v.json = "number" -> v
      [] v.json = "string" /\ v.s \in NumericStrings -> JNumber(NumberOf(v.s))
      [] OTHER -> Raised

\* re.search(r'\[.*\]', text, re.DOTALL).group(): from the first opening
\* bracket that has a closing one after it to the last closing bracket;
\* the empty sequence when there is no match
re_search_array(text) ==
    LET opens == {i \in 1..Len(text) : text[i] = Open}
        closes == {i \in 1..Len(text) : text[i] = Close}
        starts == {i \in opens : \E j \in closes : j > i}
    IN  IF starts = {} THEN <<>>
        ELSE SubSeq(text, CHOOSE i \in starts : \A l \in starts : i <= l,
                          CHOOSE j \in closes : \A l \in closes : j >= l)

\* json.loads of an array text: the list of its values, or JSONDecodeError
loads_array(text) ==
    IF /\ Len(text) >= 2 /\ text[1] = Open /\ text[Len(text)] = Close
       /\ \A i \in 2..(Len(text) - 1) : text[i].tok = "value"
    THEN [ok |-> TRUE, data |-> [i \in 1..(Len(text) - 2) |-> text[i + 1].value]]
    ELSE [ok |-> FALSE]

\* re.search(r'\{.*\}', text, re.DOTALL).group(): from the first opening
\* brace to the last closing one; braces are in object values only
re_search_object(text) ==
    LET objects == {i \in 1..Len(text) : text[i].tok = "value" /\ text[i].value.json = "object"}
    IN  IF objects = {} THEN <<>>
        ELSE SubSeq(text, CHOOSE i \in objects : \A l \in objects : i <= l,
                          CHOOSE j \in objects : \A l \in objects : j >= l)

\* json.loads of an object text: the dict, or JSONDecodeError
loads_object(text) ==
    IF Len(text) = 1 THEN [ok |-> TRUE, data |-> text[1].value] ELSE [ok |-> FALSE]

\* ContentSuggestion(...) of one item of _parse_broll_suggestions
BrollSuggestion(item) ==
    LET timestamp == Float(Get(item, "timestamp", JNumber(0)))
        duration_ == Float(Get(item, "duration", JNumber(30)))
        confidence == Float(Get(item, "confidence", JNumber(5)))
    IN  IF item.json # "object" \/ Raised \in {timestamp, duration_, confidence}
        THEN Raised
        ELSE [timestamp |-> timestamp.n, duration |-> duration_.n,
              suggestion_type |-> "broll", description |-> "",
              confidence |-> confidence.n, details |-> [category |-> "general"]]

\* MemeDetection(...) of one item of _parse_meme_detections
ParsedDetection(item) ==
    LET timestamp == Float(Get(item, "timestamp", JNumber(0)))
        confidence == Float(Get(item, "confidence", JNumber(5)))
    IN  IF item.json # "object" \/ Raised \in {timestamp, confidence}
        THEN Raised
        ELSE [timestamp |-> timestamp.n,
              meme_type |-> Get(item, "meme_type", JString("general")),
              text |-> <<>>, suggested_effects |-> <<>>, confidence |-> confidence.n]

\* the object the parser of one kind makes of an item
Make(kind, item) ==
    IF kind = "broll" THEN BrollSuggestion(item) ELSE ParsedDetection(item)

\* the body of the try statement of the two array parsers: the list of the
\* objects made of the items, or the exception raised on the way
ParseItems(response_text, kind) ==
    IF response_text = PyNone THEN Raised
    ELSE LET json_match == re_search_array(response_text.body)
             loaded == loads_array(json_match)
         IN  IF json_match = <<>> THEN PyList(<<>>)
             ELSE IF ~loaded.ok THEN Raised
             ELSE IF \E i \in 1..Len(loaded.data) : Make(kind, loaded.data[i]) = Raised
                  THEN Raised
                  ELSE PyList([i \in 1..Len(loaded.data) |-> Make(kind, loaded.data[i])])

\* _parse_broll_suggestions: except Exception: return []
parse_broll_suggestions(response_text) ==
    LET r == ParseItems(response_text, "broll")
    IN  IF r = Raised THEN PyList(<<>>) ELSE r

\* _parse_meme_detections: except Exception: return []
parse_meme_detections(response_text) ==
    LET r == ParseItems(response_text, "meme")
    IN  IF r = Raised THEN PyList(<<>>) ELSE r

\* _fallback_enhancement_suggestions: a dict of five categories
fallback_enhancement_suggestions ==
    PyDict({"pacing", "audio", "visual", "engagement", "accessibility"})

\* _parse_enhancement_suggestions
parse_enhancement_suggestions(response_text) ==
    IF response_text = PyNone THEN fallback_enhancement_suggestions
    ELSE LET json_match == re_search_object(response_text.body)
             loaded == loads_object(json_match)
         IN  IF json_match = <<>> THEN fallback_enhancement_suggestions
             ELSE IF ~loaded.ok THEN fallback_enhancement_suggestions
             ELSE PyDict(loaded.data)

\* keywords of _fallback_meme_detection, in the order of the dict
Keywords ==
    <<
       [meme_type |-> "reaction", words |-> <<
           <<"w", "o", "w">>,
           <<"o", "h", " ", "n", "o">>,
           <<"w", "a", "i", "t">>,
           <<"w", "h", "a", "t">>,
           <<"s", "e", "r", "i", "o", "u", "s", "l", "y">>,
           <<"r", "e", "a", "l", "l", "y">>>>],
       [meme_type |-> "emphasis", words |-> <<
           <<"e", "x", "a", "c", "t", "l", "y">>,
           <<"d", "e", "f", "i", "n", "i", "t", "e", "l", "y">>,
           <<"a", "b", "s", "o", "l", "u", "t", "e", "l", "y">>,
           <<"t", "o", "t", "a", "l", "l", "y">>,
           <<"c", "o", "m", "p", "l", "e", "t", "e", "l", "y">>>>],
       [meme_type |-> "awkward", words |-> <<
           <<"u", "m">>,
           <<"u", "h">>,
           <<"w", "e", "l", "l">>,
           <<"s", "o">>,
           <<"a", "n", "y", "w", "a", "y">>>>],
       [meme_type |-> "surprise", words |-> <<
           <<"s", "u", "r", "p", "r", "i", "s", "e">>,
           <<"u", "n", "e", "x", "p", "e", "c", "t", "e", "d">>,
           <<"s", "u", "d", "d", "e", "n">>,
           <<"s", "h", "o", "c", "k">>,
           <<"a", "m", "a", "z", "i", "n", "g">>>>]
    >>

UpperCase == <<"A", "B", "C", "D", "E", "F", "G", "H", "I", "J", "K", "L", "M", "N",
               "O", "P", "Q", "R", "S", "T", "U", "V", "W", "X", "Y", "Z">>
LowerCase == <<"a", "b", "c", "d", "e", "f", "g", "h", "i", "j", "k", "l", "m", "n",
               "o", "p", "q", "r", "s", "t", "u", "v", "w", "x", "y", "z">>

\* str.lower()
Lower(text) ==
    [i \in 1..Len(text) |->
        IF \E n \in 1..26 : UpperCase[n] = text[i]
        THEN LowerCase[CHOOSE n \in 1..26 : UpperCase[n] = text[i]]
        ELSE text[i]]

\* word in text
Contains(word, text) ==
    \E i \in 1..(Len(text) - Len(word) + 1) : SubSeq(text, i, i + Len(word) - 1) = word

\* MemeDetection(...) of _fallback_meme_detection
FallbackDetection(caption, meme_type) ==
    [timestamp |-> caption.start, meme_type |-> JString(meme_type), text |-> caption.text,
     suggested_effects |-> <<Tag("zoom", ""), Tag("emoji", "")>>, confidence |-> 6]

\* mutant: the loop over the words has no break
RECURSIVE ScanWords_no_break(_, _, _, _)
ScanWords_no_break(words, text, caption, meme_type) ==
    IF words = <<>> THEN <<>>
    ELSE (IF Contains(Head(words), text) THEN <<FallbackDetection(caption, meme_type)>> ELSE <<>>)
             \o ScanWords_no_break(Tail(words), text, caption, meme_type)

\* for word in words: if word in text: append the detection and break
RECURSIVE ScanWords(_, _, _, _)
ScanWords(words, text, caption, meme_type) ==
    IF words = <<>> THEN <<>>
    ELSE IF Contains(Head(words), text) THEN <<FallbackDetection(caption, meme_type)>>
    ELSE ScanWords(Tail(words), text, caption, meme_type)

\* for meme_type, words in keywords.items()
RECURSIVE ScanTypes(_, _, _)
ScanTypes(keywords, text, caption) ==
    IF keywords = <<>> THEN <<>>
    ELSE ScanWords(Head(keywords).words, text, caption, Head(keywords).meme_type)
             \o ScanTypes(Tail(keywords), text, caption)

\* _fallback_meme_detection(captions)
RECURSIVE fallback_meme_detection(_)
fallback_meme_detection(captions_) ==
    IF captions_ = <<>> THEN <<>>
    ELSE ScanTypes(Keywords, Lower(Head(captions_).text), Head(captions_))
             \o fallback_meme_detection(Tail(captions_))

\* what a public method gave back: the value returned, or an exception, and
\* the number of calls of the language-model service
Gave(fn, value, calls) == [fn |-> fn, raised |-> value = Raised, value |-> value, calls |-> calls]

\* mutant: the except clause returns None
broll_except_none == PyNone

\* the except clause of analyze_transcript_for_broll
broll_except == PyList(<<>>)

\* analyze_transcript_for_broll, the service answering as in service
analyze_transcript_for_broll(client, service) ==
    IF ~client THEN Gave("analyze_transcript_for_broll", PyList(<<>>), 0)
    ELSE IF service.raises THEN Gave("analyze_transcript_for_broll", broll_except, 1)
    ELSE Gave("analyze_transcript_for_broll", parse_broll_suggestions(service.content), 1)

\* detect_meme_moments
detect_meme_moments(client, captions_, service) ==
    IF ~client
    THEN Gave("detect_meme_moments", PyList(fallback_meme_detection(captions_)), 0)
    ELSE IF service.raises
    THEN Gave("detect_meme_moments", PyList(fallback_meme_detection(captions_)), 1)
    ELSE Gave("detect_meme_moments", parse_meme_detections(service.content), 1)

\* suggest_video_enhancements
suggest_video_enhancements(client, service) ==
    IF ~client THEN Gave("suggest_video_enhancements", fallback_enhancement_suggestions, 0)
    ELSE IF service.raises
    THEN Gave("suggest_video_enhancements", fallback_enhancement_suggestions, 1)
    ELSE Gave("suggest_video_enhancements", parse_enhancement_suggestions(service.content), 1)

\* items of a response: all fields well formed; no field; confidence is a
\* word; duration is null and the meme type is not one of the five; confidence
\* is a number written as a string; a number in place of an object
Items ==
    { JObject(JNumber(10), JNumber(20), JNumber(9), JString("reaction")),
      JObject(Absent, Absent, Absent, Absent),
      JObject(JNumber(20), Absent, JString("high"), JString("punchline")),
      JObject(JNumber(30), JNull, Absent, JString("dance")),
      JObject(JNumber(40), JNumber(10), JString("0.9"), JString("surprise")),
      JNumber(7) }

Tokens == {Word, Open, Close} \cup {Val(v) : v \in Items}

\* tokens in one response text
MaxTokens == 4

ResponseTexts == UNION {[1..n -> Tokens] : n \in 0..MaxTokens}

\* what chat.completions.create does: it raises, or it answers with a text,
\* or with no content
ServiceOutcomes ==
    {[raises |-> TRUE], [raises |-> FALSE, content |-> PyNone]} \cup
    {[raises |-> FALSE, content |-> Str(t)] : t \in ResponseTexts}

\* caption texts: every text of at most MaxChars characters of CaptionChars,
\* and some longer ones
CaptionChars == {"U", "m", "s", "o"}
MaxChars == 2
CaptionTexts ==
    UNION {[1..n -> CaptionChars] : n \in 0..MaxChars} \cup
    {
      <<"W", "o", "w", " ", "w", "h", "a", "t">>,
      <<"s", "o", " ", "w", "o", "w">>,
      <<"S", "u", "m", "m", "a", "r", "y">>,
      <<"O", "H", " ", "N", "O">>,
      <<"o", "k">>,
      <<"w", "e", "l", "l", ",", " ", "e", "x", "a", "c", "t", "l", "y">>,
      <<"S", "h", "o", "c", "k", "i", "n", "g">>
    }

\* captions in one list
MaxCaptions == 2

\* caption lists: the i-th caption starts at second i - 1 and lasts a second
CaptionLists ==
    {[i \in 1..n |-> [start |-> 10 * (i - 1), end |-> 10 * i, text |-> texts[i]]] :
        n \in 0..MaxCaptions, texts \in [1..MaxCaptions -> CaptionTexts]}

SomeCaptions == <<[start |-> 0, end |-> 10, text |-> <<"s", "o">>]>>

\* the calls of the three analyses: with a client on every service outcome,
\* without a client (detect_meme_moments on every caption list)
AnalyzerCalls ==
    {[fn |-> f, client |-> TRUE, captions |-> SomeCaptions, service |-> o] :
        f \in {"analyze_transcript_for_broll", "detect_meme_moments",
               "suggest_video_enhancements"},
        o \in ServiceOutcomes} \cup
    {[fn |-> f, client |-> FALSE, captions |-> SomeCaptions, service |-> [raises |-> TRUE]] :
        f \in {"analyze_transcript_for_broll", "suggest_video_enhancements"}} \cup
    {[fn |-> "detect_meme_moments", client |-> FALSE, captions |-> c,
      service |-> [raises |-> TRUE]] : c \in CaptionLists}

AnalyzerInit ==
    /\ fn_in \in AnalyzerCalls
    /\ fn_out = NoCall

AnalyzeTranscriptForBroll ==
    /\ fn_in.fn = "analyze_transcript_for_broll" /\ fn_out = NoCall
    /\ fn_out' = analyze_transcript_for_broll(fn_in.client, fn_in.service)
    /\ UNCHANGED fn_in

DetectMemeMoments ==
    /\ fn_in.fn = "detect_meme_moments" /\ fn_out = NoCall
    /\ fn_out' = detect_meme_moments(fn_in.client, fn_in.captions, fn_in.service)
    /\ UNCHANGED fn_in

SuggestVideoEnhancements ==
    /\ fn_in.fn = "suggest_video_enhancements" /\ fn_out = NoCall
    /\ fn_out' = suggest_video_enhancements(fn_in.client, fn_in.service)
    /\ UNCHANGED fn_in

(***************************************************************************)
(* Specifications.                                                         *)
(***************************************************************************)
vars == <<cacheVars, histVars, procVars, appVars, mpVars, fnVars>>

\* the variables a DatabaseManager call, a VideoProcessor call, a step of
\* process_video, a function application leaves alone
notCache == <<procVars, appVars, mpVars, fnVars, histVars>>
notProc == <<cacheVars, appVars, mpVars, fnVars, histVars>>
notApp == <<cacheVars, mpVars, fnVars, histVars>>
notMp == <<cacheVars, appVars, fnVars, histVars>>
notFn == <<cacheVars, procVars, appVars, mpVars, histVars>>
notHist == <<cacheVars, procVars, appVars, mpVars, fnVars>>

Init == CacheInit /\ HistInit /\ ProcInit /\ AppInit /\ MpInit /\ FnInit

\* concurrent runs writing and reading the cache
NextCache ==
    \/ (\E r \in Runs : PutCall(r, Hashes, Models)) /\ UNCHANGED notCache
    \/ (\E r \in Runs : PutExecute(r)) /\ UNCHANGED notCache
    \/ (\E r \in Runs : PutCommit(r)) /\ UNCHANGED notCache
    \/ (\E r \in Runs : PutFails(r)) /\ UNCHANGED notCache
    \/ (\E r \in Runs : GetCached(r, Hashes, Models)) /\ UNCHANGED notCache

\* the process that maintains the cache over time
Maintainer == "r1"

NextCacheTTL ==
    \/ PutCall(Maintainer, Hashes, {"base"}) /\ UNCHANGED notCache
    \/ PutExecute(Maintainer) /\ UNCHANGED notCache
    \/ PutCommit(Maintainer) /\ UNCHANGED notCache
    \/ PutFails(Maintainer) /\ UNCHANGED notCache
    \/ GetCached(Maintainer, Hashes, {"base"}) /\ UNCHANGED notCache
    \/ CleanupOldCache(Maintainer) /\ UNCHANGED notCache
    \/ AdvanceClock /\ UNCHANGED notCache

\* the stage methods of one VideoProcessor, called in any order on a video
\* that loads, a file that does not open and a path that does not exist
NextProcessor ==
    \/ (\E path \in {"a.mp4", "bad.mp4", MissingFile} : LoadVideo(path))
           /\ UNCHANGED notProc
    \/ ExtractAudio /\ tmp_count' <= MaxTempFree /\ UNCHANGED notProc
    \/ (\E model \in Models : TranscribeAudio(model)) /\ UNCHANGED notProc
    \/ AddCaptions /\ tmp_count' <= MaxTempFree /\ UNCHANGED notProc
    \/ ApplyMemeEffects /\ tmp_count' <= MaxTempFree /\ UNCHANGED notProc
    \/ ExportVideo /\ UNCHANGED notProc
    \/ Cleanup /\ UNCHANGED notProc

\* load_video on every kind of file, on a processor that has worked before
NextLoad ==
    \/ (\E path \in LoadArgs : LoadVideo(path)) /\ UNCHANGED notProc
    \/ ExtractAudio /\ tmp_count' <= MaxTempFree /\ UNCHANGED notProc
    \/ (\E model \in Models : TranscribeAudio(model)) /\ UNCHANGED notProc
    \/ Cleanup /\ UNCHANGED notProc

\* one processor used for two videos in turn, its stages called in any order
NextReuse ==
    \/ (\E path \in {"a.mp4", SecondVideo} : LoadVideo(path)) /\ UNCHANGED notProc
    \/ ExtractAudio /\ tmp_count' <= MaxTempFree /\ UNCHANGED notProc
    \/ (\E model \in Models : TranscribeAudio(model)) /\ UNCHANGED notProc
    \/ AddCaptions /\ tmp_count' <= MaxTempFree /\ UNCHANGED notProc
    \/ ApplyMemeEffects /\ tmp_count' <= MaxTempFree /\ UNCHANGED notProc
    \/ ExportVideo /\ UNCHANGED notProc

SpecCache == Init /\ [][NextCache]_vars

SpecCacheTTL == Init /\ [][NextCacheTTL]_vars

SpecProcessor == Init /\ [][NextProcessor]_vars

SpecLoad == Init /\ [][NextLoad]_vars

SpecReuse == Init /\ [][NextReuse]_vars

\* one run on a fresh processor: a.mp4 is loaded once, then the stages are
\* called in any order while time passes
NextStages ==
    \/ video_path = None /\ LoadVideo("a.mp4") /\ UNCHANGED notProc
    \/ ExtractAudio /\ tmp_count' <= MaxTempRun /\ UNCHANGED notProc
    \/ TranscribeAudio("base") /\ UNCHANGED notProc
    \/ AddCaptions /\ tmp_count' <= MaxTempRun /\ UNCHANGED notProc
    \/ ApplyMemeEffects /\ tmp_count' <= MaxTempRun /\ UNCHANGED notProc
    \/ ExportVideo /\ UNCHANGED notProc
    \/ Tick /\ UNCHANGED notProc

SpecStages == Init /\ [][NextStages]_vars

\* the duration computed from every probed frame count and frame rate
NextDuration == ComputeDuration /\ UNCHANGED notFn

InitDuration == CacheInit /\ HistInit /\ ProcInit /\ AppInit /\ MpInit /\ ProbeInit

SpecDuration == InitDuration /\ [][NextDuration]_vars

\* the three analyses of the ContentAnalyzer, each called once
NextAnalyzer ==
    \/ AnalyzeTranscriptForBroll /\ UNCHANGED notFn
    \/ DetectMemeMoments /\ UNCHANGED notFn
    \/ SuggestVideoEnhancements /\ UNCHANGED notFn

InitAnalyzer == CacheInit /\ HistInit /\ ProcInit /\ AppInit /\ MpInit /\ AnalyzerInit

SpecAnalyzer == InitAnalyzer /\ [][NextAnalyzer]_vars

\* the conversion of every time to the subtitle time format
NextSrtTime == SecondsToSrtTime /\ UNCHANGED notFn

InitSrtTime == CacheInit /\ HistInit /\ ProcInit /\ AppInit /\ MpInit /\ SrtTimeInit

SpecSrtTime == InitSrtTime /\ [][NextSrtTime]_vars

\* the caption filter of every style name under every configuration
NextCaptionFilter == GetCaptionFilter /\ UNCHANGED notFn

InitCaptionFilter == CacheInit /\ HistInit /\ ProcInit /\ AppInit /\ MpInit /\ CaptionFilterInit

SpecCaptionFilter == InitCaptionFilter /\ [][NextCaptionFilter]_vars

\* concurrent runs writing the processing history
NextHistory ==
    \E r \in Runs :
        \/ AddProcessingRecord(r) /\ UNCHANGED notHist
        \/ AddProcessingRecordFails(r) /\ UNCHANGED notHist
        \/ UpdateStatisticsSelect(r) /\ UNCHANGED notHist
        \/ UpdateStatisticsWrite(r) /\ UNCHANGED notHist
        \/ UpdateStatisticsFails(r) /\ UNCHANGED notHist

SpecHistory == Init /\ [][NextHistory]_vars

\* the subtitle file of every caption set
NextSubtitles == WriteSrt /\ UNCHANGED notFn

InitSubtitles == CacheInit /\ HistInit /\ ProcInit /\ AppInit /\ MpInit /\ SubtitleInit

SpecSubtitles == InitSubtitles /\ [][NextSubtitles]_vars

\* calls of the effect engine on the video a.mp4
NextEngine ==
    \/ (\E dets \in DetectionLists : MpCall("a.mp4", dets)) /\ UNCHANGED notMp
    \/ MpSubStep /\ UNCHANGED notMp
    \/ MpFinish /\ UNCHANGED notMp

SpecEngine == Init /\ [][NextEngine]_vars

\* the runs of process_video in one session
NextPipeline ==
    \/ PvStart /\ UNCHANGED notApp
    \/ PvSave /\ UNCHANGED notApp
    \/ PvLoad /\ UNCHANGED notApp
    \/ PvExtractAudio /\ UNCHANGED notApp
    \/ PvTranscribeAudio /\ UNCHANGED notApp
    \/ PvAddCaptions /\ UNCHANGED notApp
    \/ PvApplyMemeEffects /\ UNCHANGED notApp
    \/ PvExportVideo /\ UNCHANGED notApp
    \/ PvFinish /\ UNCHANGED notApp
    \/ Tick /\ UNCHANGED <<appVars, notApp>>

SpecPipeline == Init /\ [][NextPipeline]_vars

\* the statements of a process_video call that has got past st.rerun(): the
\* script thread runs them one after the other to the return or the except clause
PvStep ==
    \/ PvSave /\ UNCHANGED notApp
    \/ PvLoad /\ UNCHANGED notApp
    \/ PvExtractAudio /\ UNCHANGED notApp
    \/ PvTranscribeAudio /\ UNCHANGED notApp
    \/ PvAddCaptions /\ UNCHANGED notApp
    \/ PvApplyMemeEffects /\ UNCHANGED notApp
    \/ PvExportVideo /\ UNCHANGED notApp
    \/ PvFinish /\ UNCHANGED notApp

\* the temporary files one call makes at most: the copy of the upload
\* (app.py:138), the audio file, the subtitle file and the captioned video,
\* the meme video (video_processor.py:100, 180, 193, 233)
TempsPerRun == 1 + 1 + 2 + 1

\* a session in which every call that starts has the file names it needs, so
\* that no statement waits for a name
NextPipelineLive ==
    \/ PvStart /\ tmp_count + TempsPerRun <= MaxTemp /\ UNCHANGED notApp
    \/ PvStep
    \/ Tick /\ UNCHANGED <<appVars, notApp>>

\* the session under a script thread that is never held back: a call that is
\* running takes its next statement; when the button is pressed is the user's
\* choice and is not forced
SpecPipelineLive == Init /\ [][NextPipelineLive]_vars /\ WF_vars(PvStep)

(***************************************************************************)
(* Claims about the transcription cache.                                   *)
(***************************************************************************)
\* the entry e returned by get_cached_transcription holds exactly the
\* transcript and the captions of value v
EntryHolds(e, v) ==
    /\ e.py = "dict"
    /\ e.transcript = v.transcript
    /\ e.captions = v.captions

\* the last two committed writes are cache_transcription calls
TwoPuts == Len(write_log) = 2 /\ write_log[1].op = "put" /\ write_log[2].op = "put"

SameKey(a, b) == a.file_hash = b.file_hash /\ a.model_used = b.model_used

\* C3: put(K, V1) followed by put(K, V2) followed by get(K) returns exactly V2:
\* whenever the last two committed writes are puts of one key, every result a
\* get of that key can give holds the transcript and captions of the second.
C3_LastWriteWins ==
    (TwoPuts /\ SameKey(write_log[1], write_log[2])) =>
        \A e \in GetResults(transcription_cache, write_log[2].file_hash,
                            write_log[2].model_used) :
            EntryHolds(e, write_log[2].value)

\* C3 witness: V1 then V2 (different) were put under one key, and a get has
\* just returned an entry
C3_Witness ==
    /\ TwoPuts /\ SameKey(write_log[1], write_log[2])
    /\ write_log[1].value # write_log[2].value
    /\ db_last.op = "get" /\ ~db_last.fault
    /\ db_last.args.file_hash = write_log[2].file_hash
    /\ db_last.args.model_used = write_log[2].model_used
    /\ EntryHolds(db_last.value, write_log[2].value)

\* C4: a put replaces only the entry of the same (fingerprint, model) key:
\* after put(f, m1, V1) and put(f, m2, V2) with m1 # m2, get(f, m1) returns V1
\* and get(f, m2) returns V2.
C4_PutKeepsOtherModel ==
    (/\ TwoPuts
     /\ write_log[1].file_hash = write_log[2].file_hash
     /\ write_log[1].model_used # write_log[2].model_used) =>
        /\ \A e \in GetResults(transcription_cache, write_log[1].file_hash,
                               write_log[1].model_used) :
               EntryHolds(e, write_log[1].value)
        /\ \A e \in GetResults(transcription_cache, write_log[2].file_hash,
                               write_log[2].model_used) :
               EntryHolds(e, write_log[2].value)

\* the row was written whole by one call: its two data columns are the
\* transcript and the captions of one value
RowOfOneWriter(x) ==
    \E v \in Values : /\ x.transcript_data = json_dumps(v.transcript)
                      /\ x.captions_data = json_dumps(v.captions)

\* C5: under any interleaving of concurrent cache_transcription calls for one
\* key, the cache never holds two entries for a key, every entry has the
\* transcript and captions of one single call, and once a call that overlapped
\* another call for its key has committed, the key has exactly one entry, the
\* one that call wrote.
C5_ConcurrentPutsAtomic ==
    /\ \A h \in Hashes, m \in Models :
           Cardinality(SelectRows(transcription_cache, h, m)) <= 1
    /\ \A x \in transcription_cache : RowOfOneWriter(x)
    /\ (Len(write_log) > 0 /\ write_log[Len(write_log)].op = "put"
        /\ write_log[Len(write_log)].overlap) =>
           LET w == write_log[Len(write_log)]
               rows == SelectRows(transcription_cache, w.file_hash, w.model_used)
           IN  /\ Cardinality(rows) = 1
               /\ \A x \in rows : /\ x.transcript_data = json_dumps(w.value.transcript)
                                  /\ x.captions_data = json_dumps(w.value.captions)

\* C5 witness: two calls for one key with different values ran at the same
\* time and both have committed
C5_Witness ==
    /\ TwoPuts /\ SameKey(write_log[1], write_log[2])
    /\ write_log[1].overlap /\ write_log[2].overlap
    /\ write_log[1].value # write_log[2].value
    /\ \A r \in Runs : db_pc[r] = "idle"

\* C6: a persistence failure inside the cache never propagates as an
\* exception: get_cached_transcription then reports a miss (None) and
\* cache_transcription reports failure (False).
C6_CacheFailuresAbsorbed ==
    db_last.op \in {"get", "put"} =>
        /\ ~db_last.raised
        /\ (db_last.fault /\ db_last.op = "get") => db_last.value = PyNone
        /\ (db_last.fault /\ db_last.op = "put") => db_last.value = FALSE

\* C6 witness: a get has failed while the table holds the entry
C6_Witness ==
    /\ db_last.op = "get" /\ db_last.fault
    /\ SelectRows(transcription_cache, db_last.args.file_hash,
                  db_last.args.model_used) # {}

\* the age of the last write of row x's key, in seconds
AgeOfLastWrite(x) == now - last_write[<<x.file_hash, x.model_used>>]

\* this step is a cleanup_old_cache call that met no error
CleanupStep ==
    /\ CleanupOldCache(Maintainer)
    /\ db_last'.op = "cleanup" /\ ~db_last'.fault

\* C7: cleanup_old_cache(days) removes every entry whose last write is more
\* than `days` old and no entry written within the window, whatever was read
\* in between; with no argument the window is 30 days.
C7_CleanupByAge ==
    [][CleanupStep =>
        LET window == IF db_last'.args.days.given
                      THEN db_last'.args.days.days ELSE 30
        IN  transcription_cache' =
                {x \in transcription_cache :
                    AgeOfLastWrite(x) <= window * SecondsPerDay}]_vars

\* C7 witness: a cleanup with the default window has just removed an entry and
\* kept another, older than a second
C7_Witness ==
    /\ db_last.op = "cleanup" /\ ~db_last.fault /\ ~db_last.args.days.given
    /\ Len(write_log) > 0 /\ write_log[Len(write_log)].op = "cleanup"
    /\ \E x \in transcription_cache : x.created_at < now

(***************************************************************************)
(* Claims about VideoProcessor.                                            *)
(***************************************************************************)
\* the call invoked Whisper (load_model, transcribe): every transcribe_audio
\* call that passes the guard does
WhisperCalled(r) == r.op = "transcribe_audio" /\ r.outcome \in {"ok", "raised"}

\* the content fingerprint of an input video, as a cache key
Fingerprint(path) == IF path = "a.mp4" THEN "h1" ELSE "h2"

\* C1: after a successful transcribe, a second transcribe call with the same
\* asset (the same audio file) and the same model does not invoke the
\* transcription service.
C1_SecondTranscribeSkipsService ==
    [][\A m \in Models :
          (TranscribeAudio(m) /\ transcribed = m) => ~WhisperCalled(ret')]_vars

\* C2: after any successful transcribe for (fingerprint, model),
\* get(fingerprint, model) returns an entry holding that transcript and its
\* captions.
C2_TranscribeFillsCache ==
    (ret = Ok("transcribe_audio") /\ transcribed # None) =>
        \A e \in GetResults(transcription_cache, Fingerprint(video_path), transcribed) :
            /\ e.py = "dict"
            /\ e.transcript = transcript
            /\ e.captions = captions

\* this step is a call of one of the five stages after load
StageCall ==
    \/ ExtractAudio
    \/ \E m \in Models : TranscribeAudio(m)
    \/ AddCaptions
    \/ ApplyMemeEffects
    \/ ExportVideo

\* the call was refused and changed nothing: no field, no file
RefusedUnchanged ==
    /\ ret'.outcome = "rejected"
    /\ UNCHANGED <<procFields, files, tmp_count>>

\* C8: once a stage call of a run has failed, every later stage call on that
\* run is rejected and no stage is entered again.
C8_FailedIsAbsorbing == [][(run_failed /\ StageCall) => RefusedUnchanged]_vars

C10_LoadRejectsBadFrameRate ==
    [][\A path \in LoadArgs :
          LoadVideo(path) =>
              (ret'.outcome = "ok" <=>
                  (Exists(path) /\ IsOpened(path) /\ ProbeFps(path) > 0))]_vars

\* C11: for every probed frame_count >= 0 and frame rate fps, the duration is
\* the number frame_count / fps when fps > 0 (900 frames at 30 fps give 30) and
\* 0 when fps <= 0; it is always a number, no division by zero happens.
C11_DurationFromProbe ==
    fn_out.fn = "duration" =>
        LET n == fn_in.frame_count
            f == fn_in.fps
            d == fn_out.value
        IN  /\ d[2] > 0
            /\ f > 0 => d[1] * f = n * d[2]
            /\ f <= 0 => d = <<0, 1>>
            /\ (n = 900 /\ f = 30) => d = <<30, 1>>

\* C11 witness: 900 frames at 30 fps have been probed and give 30 seconds
C11_Witness ==
    /\ fn_in = [fn |-> "duration", frame_count |-> 900, fps |-> 30]
    /\ fn_out = [fn |-> "duration", value |-> <<30, 1>>]

(***************************************************************************)
(* Claims about process_video.                                             *)
(***************************************************************************)
\* C12: in a pipeline run a failure of load, extractAudio, transcribe, caption
\* or export is fatal: as soon as a stage call of the run has failed, no later
\* stage of the run is executed and the run has ended with status "error".
C12_StageFailureIsFatal ==
    failed_at # None => (app_pc = "idle" /\ processing_status = "error")

(***************************************************************************)
(* Claims about the assets of one run of the stages.                       *)
(***************************************************************************)
\* the asset produced by the most recent successful transforming stage of the
\* run, the loaded asset when there is none
CurrentAsset == IF output_path # None THEN output_path ELSE video_path

\* C13: caption, applyEffects and export each take as input exactly the asset
\* produced by the most recent successful transforming stage of the run, or
\* the loaded asset when there is none, in whatever order they are called.
C13_StageReadsLatestAsset ==
    [][/\ (AddCaptions /\ ret'.outcome = "ok") =>
              files'[output_path'] = Append(files[CurrentAsset], "captions")
       /\ (ApplyMemeEffects /\ ret'.outcome = "ok") =>
              files'[output_path'] = Append(files[CurrentAsset], "meme")
       /\ (ExportVideo /\ ret'.outcome = "ok") =>
              files'[FinalOutput(clock)] = files[CurrentAsset]]_vars

\* C14: caption, applyEffects and export write only paths created by the call:
\* every file that exists before the call is still there after it with the
\* same content.
C14_StagesWriteNewPaths ==
    [][(AddCaptions \/ ApplyMemeEffects \/ ExportVideo) =>
           \A p \in DOMAIN files : p \in DOMAIN files' /\ files'[p] = files[p]]_vars

\* C15: a successful export never writes to the destination path of an earlier
\* export: the destination does not exist before the call.
C15_ExportPathsDiffer ==
    [][(ExportVideo /\ ret'.outcome = "ok") => ~Exists(FinalOutput(clock))]_vars

\* the names of temporary files
TempNames ==
    {TmpWav[i] : i \in 1..Len(TmpWav)} \cup {TmpSrt[i] : i \in 1..Len(TmpSrt)}
        \cup {TmpMp4[i] : i \in 1..Len(TmpMp4)}

\* C16: when a run has ended, completed or in error, every intermediate file
\* created during it (the uploaded copy, the audio, the subtitle file, the
\* captioned video, the effect outputs) has been deleted.
C16_RunReleasesIntermediates ==
    (app_pc = "idle" /\ processing_status \in {"completed", "error"}) =>
        \A p \in TempNames : ~Exists(p)

(***************************************************************************)
(* Claims about cleanup().                                                 *)
(***************************************************************************)
\* the files registered in temp_files
Registered == {temp_files[i] : i \in 1..Len(temp_files)}

\* C17: cleanup() tries to delete every file registered in temp_files (at most
\* as many of them stay as unlink calls failed, no other file is touched),
\* never raises, and always leaves temp_files empty; a cleanup() with nothing
\* registered changes nothing.
C17_CleanupBestEffort ==
    [][Cleanup =>
        /\ ret' = Ok("cleanup")
        /\ temp_files' = <<>>
        /\ Cardinality(Registered \cap DOMAIN files') <= MaxUnlinkFailures
        /\ \A p \in DOMAIN files \ Registered :
               p \in DOMAIN files' /\ files'[p] = files[p]
        /\ \A p \in DOMAIN files' : p \in DOMAIN files /\ files'[p] = files[p]
        /\ temp_files = <<>> => files' = files]_vars

\* C17 witness: cleanup() has returned with temp_files empty although the
\* deletion of a temporary file failed
C17_Witness ==
    /\ ret = Ok("cleanup")
    /\ temp_files = <<>>
    /\ \E p \in TempNames : Exists(p)

\* C18: no processor field refers to an intermediate file that has been
\* deleted: the files audio_path and output_path name, once created, are
\* deleted only by cleanup(), and after it the fields do not name them.
C18_NoFieldNamesDeletedFile ==
    /\ audio_path # None => Exists(audio_path)
    /\ output_path # None => Exists(output_path)

(***************************************************************************)
(* Claims about a processor that is used again.                            *)
(***************************************************************************)
\* load_video succeeds on a processor that holds another video
LoadsNewAsset ==
    \E path \in LoadArgs \cup {SecondVideo} :
        /\ LoadVideo(path) /\ ret'.outcome = "ok"
        /\ video_path # None /\ Source(path) # Source(video_path)

\* C35: a successful load of a new video on a processor that holds another
\* one resets what was derived from the old one (audio track, transcript,
\* captions, output), so that no later transcribe, applyEffects or export
\* reads an audio track or an output made from another video than the loaded one.
C35_LoadResetsDerivedState ==
    [][/\ LoadsNewAsset =>
              /\ audio_path' = None /\ transcript' = PyNone
              /\ captions' = <<>> /\ output_path' = None
       /\ ((\E m \in Models : TranscribeAudio(m)) /\ ret'.outcome = "ok") =>
              Source(audio_path) = Source(video_path)
       /\ ((ApplyMemeEffects \/ ExportVideo) /\ ret'.outcome = "ok") =>
              Source(CurrentAsset) = Source(video_path)]_vars

\* C36: a stage call that fails while it runs leaves the result fields of the
\* processor as they were: a failed load_video leaves video_path, fps,
\* duration, width and height, a failed extract_audio leaves audio_path (a
\* following transcribe_audio is still refused), a failed transcribe_audio
\* leaves transcript and captions.
C36_FailedStageKeepsFields ==
    [][/\ ((\E path \in LoadArgs : LoadVideo(path)) /\ ret'.outcome = "false") =>
              UNCHANGED <<video_path, fps, duration, width, height>>
       /\ (ExtractAudio /\ ret'.outcome = "raised") =>
              /\ UNCHANGED audio_path
              /\ audio_path = None => transcribe_audio_guard'
       /\ ((\E m \in Models : TranscribeAudio(m)) /\ ret'.outcome = "raised") =>
              UNCHANGED <<transcript, captions>>]_vars

\* the destinations export_video writes
ExportPaths == {ExportNames[i] : i \in 1..Len(ExportNames)}

\* C37: temp_files never holds the loaded input path nor a destination of
\* export_video, so cleanup() deletes neither the input nor an exported
\* result: both are there after it with their content.
C37_CleanupSparesInputAndExports ==
    [][/\ video_path' \notin Registered'
       /\ ExportPaths \cap Registered' = {}
       /\ Cleanup => \A p \in ({video_path} \cup ExportPaths) \cap DOMAIN files :
                         p \in DOMAIN files' /\ files'[p] = files[p]]_vars

\* C37 witness: cleanup() has deleted an intermediate output while the loaded
\* input and an exported result are still there
C37_Witness ==
    /\ ret = Ok("cleanup")
    /\ output_path # None /\ ~Exists(output_path)
    /\ Exists(video_path)
    /\ \E p \in ExportPaths : Exists(p) /\ files[p] # <<>>

(***************************************************************************)
(* Claims about the effect engine.                                         *)
(***************************************************************************)
\* the place of a sub-effect in the order zoom, emoji, sound, slowmo, text
Rank(effect) ==
    CASE effect = "zoom" -> 1
      [] effect = "emoji" -> 2
      [] effect = "sound" -> 3
      [] effect = "slowmo" -> 4
      [] effect = "text" -> 5
      [] OTHER -> 0

\* C20: the engine takes the detections in list order and, within one
\* detection, its sub-effects in the order zoom, emoji, sound, slowmo, text
\* whatever the order of the tags; the first sub-step reads the video of the
\* call and every other sub-step the asset returned by the sub-step just before
\* it; when the loop is over, each wanted sub-effect of each detection has been
\* run once.
C20_EffectsInOrder ==
    /\ \A n \in 1..Len(mp_log) :
           /\ Rank(mp_log[n].effect) > 0
           /\ mp_log[n].input = IF n = 1 THEN mp_args.video_path ELSE mp_log[n - 1].result
           /\ n > 1 =>
                 \/ mp_log[n - 1].det < mp_log[n].det
                 \/ /\ mp_log[n - 1].det = mp_log[n].det
                    /\ Rank(mp_log[n - 1].effect) < Rank(mp_log[n].effect)
    /\ mp_pc.at = "copy" =>
           \A i \in 1..Len(mp_args.meme_detections), effect \in {"zoom", "emoji", "sound", "slowmo", "text"} :
               Wants(mp_args.meme_detections[i].suggested_effects, effect) <=>
                   \E n \in 1..Len(mp_log) : mp_log[n].det = i /\ mp_log[n].effect = effect

\* C20 witness: a call with two detections is over; the first detection has
\* the tags text, zoom and got zoom then text, and the second detection's
\* sub-step read the video the text overlay wrote
C20_Witness ==
    /\ mp_pc = MpIdle /\ Len(mp_args.meme_detections) = 2
    /\ mp_args.meme_detections[1].suggested_effects = <<Tag("text", ""), Tag("zoom", "")>>
    /\ Len(mp_log) >= 3
    /\ mp_log[1].effect = "zoom" /\ mp_log[2].effect = "text"
    /\ mp_log[2].result # mp_log[2].input
    /\ mp_log[3].det = 2 /\ mp_log[3].input = mp_log[2].result

\* C19: applyEffects with an empty detection list is a no-op: it returns the
\* input asset itself (the current output stays what it was), creates no
\* intermediate file and does not run the codec.
C19_NoDetectionsNoEffects ==
    [][(ApplyMemeEffects /\ ~apply_meme_effects_guard /\ ProcessorDetections = <<>>) =>
           UNCHANGED <<output_path, temp_files, tmp_count, files>>]_vars

\* the detection and the library file of the n-th sub-step of the call
StepDetection(n) == mp_args.meme_detections[mp_log[n].det]
StepResource(n) == ResourceOf(StepDetection(n), mp_log[n].effect)

\* the n-th sub-step names an emoji or sound id that the library does not have
\* or whose file does not exist
StepUnavailable(n) ==
    \/ StepResource(n) = None
    \/ StepResource(n) # "" /\ StepResource(n) \notin DOMAIN files

\* the video made of the call's video by those of the sub-steps 1..n that are
\* in the set keep
RECURSIVE Applied(_, _)
Applied(n, keep) ==
    IF n = 0 THEN <<mp_args.video_path>>
    ELSE IF n \in keep THEN Append(Applied(n - 1, keep), mp_log[n].effect)
    ELSE Applied(n - 1, keep)

\* the call is over and ran sub-steps
CallOver == mp_pc = MpIdle /\ mp_log # <<>>

\* C21: a sub-step whose emoji or sound id is absent from the library, or whose
\* file is missing, returns the asset it was given; the call does not raise, it
\* returns a path; and when no codec run and no copy failed, the video returned
\* is the call's video with all other sub-effects applied in order.
C21_MissingResourceSkipped ==
    LET Available == {n \in 1..Len(mp_log) : ~StepUnavailable(n)}
    IN  /\ \A n \in 1..Len(mp_log) :
               StepUnavailable(n) => mp_log[n].result = mp_log[n].input
        /\ CallOver =>
               /\ mp_ret \in DOMAIN files
               /\ ((\A n \in 1..Len(mp_log) : mp_log[n].outcome # "failed") /\ mp_caught # "OSError")
                      => files[mp_ret] = Applied(Len(mp_log), Available)

\* C21 witness: the detection slowmo, emoji_clap, whose emoji file is missing:
\* the emoji sub-step returned its input and the call returned the slowed video
C21_Witness ==
    /\ CallOver /\ Len(mp_log) = 2
    /\ mp_log[1].effect = "emoji" /\ StepUnavailable(1) /\ mp_log[1].result = mp_log[1].input
    /\ mp_log[2].effect = "slowmo" /\ mp_log[2].outcome = "done"
    /\ mp_ret = mp_output /\ files[mp_ret] = <<"a.mp4", "slowmo">>

\* C22: a sub-step whose codec run fails returns the asset it was given; the
\* sub-steps after it are all run, on that asset; and unless the final copy
\* fails, the video returned carries the effects of the sub-steps that
\* succeeded, those before the failure included.
C22_CodecFailureKeepsAsset ==
    LET Done == {n \in 1..Len(mp_log) : mp_log[n].outcome = "done"}
    IN  /\ \A n \in 1..Len(mp_log) :
               /\ mp_log[n].outcome = "failed" => mp_log[n].result = mp_log[n].input
               /\ n > 1 => mp_log[n].input = mp_log[n - 1].result
               /\ mp_log[n].result \in DOMAIN files
               /\ files[mp_log[n].result] = Applied(n, Done)
        /\ CallOver =>
               /\ Len(mp_log) = TotalSteps(mp_args.meme_detections)
               /\ mp_caught # "OSError" => files[mp_ret] = Applied(Len(mp_log), Done)

\* C22 witness: the first sub-step wrote a video, the codec failed in the
\* second, the third ran on the first one's video, and the call returned the
\* video with the first and the third effect
C22_Witness ==
    /\ CallOver /\ Len(mp_log) >= 3
    /\ mp_log[1].outcome = "done" /\ mp_log[2].outcome = "failed"
    /\ mp_log[3].outcome = "done" /\ mp_log[3].input = mp_log[1].result
    /\ mp_ret = mp_output
    /\ files[mp_ret] = <<"a.mp4", mp_log[1].effect, mp_log[3].effect>>

\* the effect tags the keyword fallback of detect_meme_moments gives a detection
FallbackTags == FallbackDetection([start |-> 0, text |-> <<>>], "reaction").suggested_effects

\* C38: a detection made by the keyword fallback, given to
\* apply_meme_effects, has each of its effect tags run as a sub-step; its
\* emoji tag names an image of the emoji library and the overlay sub-step is
\* not skipped.
C38_FallbackDetectionApplied ==
    \A n \in 1..Len(mp_log) :
        StepDetection(n).suggested_effects = FallbackTags =>
            /\ \A j \in 1..Len(FallbackTags) :
                   \E k \in 1..Len(StepsOf(StepDetection(n))) :
                       StepsOf(StepDetection(n))[k] = FallbackTags[j].name
            /\ mp_log[n].effect = "emoji" =>
                   /\ \E key \in DOMAIN EmojiLibrary : StepResource(n) = EmojiLibrary[key]
                   /\ mp_log[n].outcome # "skipped"

\* C34: a call of apply_meme_effects with detections, none of whose sub-steps
\* made a new asset (no known tag, or every sub-step skipped or failed),
\* returns the output file it created, holding a copy of the input, and not
\* the input path.
C34_NoEffectReturnsCopy ==
    (/\ mp_pc = MpIdle /\ mp_args.meme_detections # <<>>
     /\ \A n \in 1..Len(mp_log) : mp_log[n].outcome # "done")
        => /\ mp_ret = mp_output
           /\ mp_ret # mp_args.video_path
           /\ Exists(mp_ret) /\ files[mp_ret] = files[mp_args.video_path]

(***************************************************************************)
(* Claims about the ContentAnalyzer.                                       *)
(***************************************************************************)
\* the service answered and the answer has no array that json.loads accepts
NoParsedArray(service) ==
    /\ ~service.raises
    /\ \/ service.content = PyNone
       \/ ~loads_array(re_search_array(service.content.body)).ok

\* C23: each of the three analyses, on every response text and every failure
\* of the service, returns a list or a dict: it never raises and never returns
\* None; the B-roll analysis returns the empty list when there is no client,
\* when the service fails and when its response cannot be parsed.
C23_AnalysesNeverFail ==
    fn_out # NoCall /\ fn_out.fn \in {"analyze_transcript_for_broll", "detect_meme_moments", "suggest_video_enhancements"} =>
        /\ ~fn_out.raised
        /\ fn_out.value.py = IF fn_out.fn = "suggest_video_enhancements" THEN "dict" ELSE "list"
        /\ (/\ fn_out.fn = "analyze_transcript_for_broll"
            /\ ~fn_in.client \/ fn_in.service.raises \/ NoParsedArray(fn_in.service))
               => fn_out.value = PyList(<<>>)

\* C23 witness: the B-roll analysis got a text with brackets that is no JSON
\* array and returned the empty list
C23_Witness ==
    /\ fn_out # NoCall /\ fn_out.fn = "analyze_transcript_for_broll" /\ fn_in.client
    /\ ~fn_in.service.raises /\ fn_in.service.content # PyNone
    /\ re_search_array(fn_in.service.content.body) # <<>>
    /\ NoParsedArray(fn_in.service)
    /\ fn_out.value = PyList(<<>>)

\* the array json.loads made of the response, when there is one
ParsedArray(service) == loads_array(re_search_array(service.content.body)).data

\* the values a numeric field may take: the number given, the default when
\* the field is missing or is no number
Coerced(item, key, default) ==
    LET v == item.fields[key]
    IN  CASE v.json = "number" -> {v.n}
          [] v.json = "string" /\ v.s \in NumericStrings -> {NumberOf(v.s), default}
          [] OTHER -> {default}

\* C24: when the response holds an array of objects, one suggestion or
\* detection is returned for each item, in order; a confidence that is missing
\* or malformed is 0.5 and a duration that is missing or malformed is 3.0,
\* whatever the other items are.
C24_MalformedFieldTakesDefault ==
    (/\ fn_out # NoCall /\ fn_out.fn \in {"analyze_transcript_for_broll", "detect_meme_moments"}
     /\ fn_in.client /\ ~fn_in.service.raises /\ ~NoParsedArray(fn_in.service)
     /\ \A i \in 1..Len(ParsedArray(fn_in.service)) : ParsedArray(fn_in.service)[i].json = "object")
        => LET data == ParsedArray(fn_in.service)
               result == fn_out.value.body
           IN  /\ Len(result) = Len(data)
               /\ \A i \in 1..Len(data) :
                      /\ result[i].confidence \in Coerced(data[i], "confidence", 5)
                      /\ fn_out.fn = "analyze_transcript_for_broll"
                             => result[i].duration \in Coerced(data[i], "duration", 30)

\* the spans of a token text that are well-formed JSON arrays
ArraySpans(text) ==
    {p \in (1..Len(text)) \X (1..Len(text)) :
        p[1] < p[2] /\ loads_array(SubSeq(text, p[1], p[2])).ok}

\* the items of the first well-formed array of a text that has one
FirstArray(text) ==
    LET first == CHOOSE p \in ArraySpans(text) :
                     \A q \in ArraySpans(text) : p[1] < q[1] \/ (p[1] = q[1] /\ p[2] <= q[2])
    IN  loads_array(SubSeq(text, first[1], first[2])).data

\* the first object of a text that has one
FirstObject(text) ==
    text[CHOOSE i \in 1..Len(text) :
             /\ text[i].tok = "value" /\ text[i].value.json = "object"
             /\ \A l \in 1..(i - 1) : ~(text[l].tok = "value" /\ text[l].value.json = "object")].value

\* C33: each parser takes the first well-formed JSON array (the first object,
\* for enhancements) of the response, whatever text follows it: a response
\* that is one array of well-formed items followed by text with a closing
\* bracket yields the suggestions or detections of that array's items.
C33_ParserTakesFirstArray ==
    (/\ fn_out # NoCall
     /\ fn_out.fn \in {"analyze_transcript_for_broll", "detect_meme_moments", "suggest_video_enhancements"}
     /\ fn_in.client /\ ~fn_in.service.raises /\ fn_in.service.content # PyNone)
        => LET text == fn_in.service.content.body
               kind == IF fn_out.fn = "analyze_transcript_for_broll" THEN "broll" ELSE "meme"
           IN  IF fn_out.fn = "suggest_video_enhancements"
               THEN (\E i \in 1..Len(text) : text[i].tok = "value" /\ text[i].value.json = "object")
                        => fn_out.value = PyDict(FirstObject(text))
               ELSE (/\ ArraySpans(text) # {}
                     /\ \A i \in 1..Len(FirstArray(text)) : Make(kind, FirstArray(text)[i]) # Raised)
                        => fn_out.value =
                               PyList([i \in 1..Len(FirstArray(text)) |-> Make(kind, FirstArray(text)[i])])

\* the lower-cased text of caption c has a keyword of the t-th meme type
KeywordIn(c, t) ==
    \E n \in 1..Len(Keywords[t].words) :
        Contains(Keywords[t].words[n], Lower(fn_in.captions[c].text))

\* the pairs of a caption and a meme type that match, and their order:
\* captions in list order, the types of one caption in lexicon order
Matches == {p \in (1..Len(fn_in.captions)) \X (1..Len(Keywords)) : KeywordIn(p[1], p[2])}
UpTo(p) == {q \in Matches : q[1] < p[1] \/ (q[1] = p[1] /\ q[2] <= p[2])}

\* C25: without a client detect_meme_moments calls no service and returns the
\* keyword detections: one for each caption and meme type whose keyword is a
\* substring of the lower-cased text, and no other; captions in order, the
\* types of one caption in lexicon order; timestamp and text are the caption's.
C25_FallbackIsKeywordMatch ==
    (fn_out # NoCall /\ fn_out.fn = "detect_meme_moments" /\ ~fn_in.client) =>
        /\ fn_out.calls = 0
        /\ ~fn_out.raised
        /\ Len(fn_out.value.body) = Cardinality(Matches)
        /\ \A p \in Matches :
               LET d == fn_out.value.body[Cardinality(UpTo(p))]
               IN  /\ d.timestamp = fn_in.captions[p[1]].start
                   /\ d.text = fn_in.captions[p[1]].text
                   /\ d.meme_type = JString(Keywords[p[2]].meme_type)

\* C25 witness: "Wow what" has two reaction keywords and "so wow" a reaction
\* and an awkward one: three detections, reaction, reaction, awkward
C25_Witness ==
    /\ fn_out # NoCall /\ fn_out.fn = "detect_meme_moments" /\ ~fn_in.client
    /\ Len(fn_in.captions) = 2
    /\ fn_in.captions[1].text = <<"W", "o", "w", " ", "w", "h", "a", "t">>
    /\ fn_in.captions[2].text = <<"s", "o", " ", "w", "o", "w">>
    /\ Len(fn_out.value.body) = 3
    /\ fn_out.value.body[2].meme_type = JString("reaction")
    /\ fn_out.value.body[3].meme_type = JString("awkward")
    /\ fn_out.value.body[3].timestamp = 10

\* the meme types of the specification
MemeTypes == {"reaction", "punchline", "awkward", "emphasis", "surprise"}

\* C27: every detection detect_meme_moments returns, parsed from a response of
\* the service or made by the keyword fallback, has one of the five meme types
\* reaction, punchline, awkward, emphasis, surprise.
C27_MemeTypeIsKnown ==
    (fn_out # NoCall /\ fn_out.fn = "detect_meme_moments") =>
        \A i \in 1..Len(fn_out.value.body) :
            fn_out.value.body[i].meme_type \in {JString(t) : t \in MemeTypes}

(***************************************************************************)
(* Claims about the subtitle file.                                         *)
(***************************************************************************)
\* C29: for every time of a whole number of milliseconds, _seconds_to_srt_time
\* gives HH = floor(t / 3600 s), MM = floor(t / 60 s) mod 60, SS = floor(t) mod
\* 60 and mmm = the millisecond remainder, so that MM < 60, SS < 60,
\* mmm < 1000 and the four fields recompose to the time.
C29_SrtTimeFields ==
    (fn_out # NoCall /\ fn_out.fn = "seconds_to_srt_time") =>
        LET k == fn_in.seconds
            v == fn_out.value
        IN  /\ v.hh = k \div 3600000
            /\ v.mm = (k \div 60000) % 60
            /\ v.ss = (k \div 1000) % 60
            /\ v.mmm = k % 1000
            /\ v.mm < 60 /\ v.ss < 60 /\ v.mmm < 1000
            /\ ((v.hh * 60 + v.mm) * 60 + v.ss) * 1000 + v.mmm = k

\* C26: every caption of transcribe_audio has a confidence between 0 and 1
\* (0 and 1000 thousandths) and an end after its start, and the captions are
\* the segments of the transcription service, as many and in the same order.
C26_CaptionsWellFormed ==
    /\ \A i \in 1..Len(captions) :
           /\ captions[i].confidence >= 0 /\ captions[i].confidence <= 1000
           /\ captions[i].end > captions[i].start
    /\ transcript # PyNone =>
           /\ Len(captions) = Len(transcript.segments)
           /\ \A i \in 1..Len(captions) :
                  /\ captions[i].start = transcript.segments[i].start
                  /\ captions[i].end = transcript.segments[i].end

\* the rendering parameters of the Standard style under the configuration of
\* the call: the configured font size and colour
StandardParameters ==
    << <<"FontSize", <<fn_in.font_size>> >>,
       <<"PrimaryColour", <<"&H", RemoveHash(fn_in.font_color)>> >> >>

\* C30: a style name that is not Standard, TikTok, YouTube or Custom gets
\* exactly the rendering parameters of Standard; each of the four names gets
\* the parameters of its own table entry.
C30_UnknownStyleIsStandard ==
    (fn_out # NoCall /\ fn_out.fn = "get_caption_filter") =>
        fn_out.value.force_style =
            CASE fn_in.style = "TikTok" ->
                     << <<"FontSize", <<"32">> >>, <<"Bold", <<"1">> >>,
                        <<"PrimaryColour", <<"&H", "FFFFFF">> >>,
                        <<"OutlineColour", <<"&H", "000000">> >>, <<"Outline", <<"2">> >> >>
              [] fn_in.style = "YouTube" ->
                     << <<"FontSize", <<"28">> >>, <<"PrimaryColour", <<"&H", "FFFFFF">> >>,
                        <<"BackColour", <<"&H", "80000000">> >> >>
              [] OTHER -> StandardParameters

\* C30 witness: the style Vlog with the font size 32 and the colour #FFFF00
\* got the parameters of Standard
C30_Witness ==
    /\ fn_out # NoCall /\ fn_out.fn = "get_caption_filter"
    /\ fn_in.style = "Vlog" /\ fn_in.font_size = "32" /\ fn_in.font_color = "#FFFF00"
    /\ fn_out.value.force_style =
           << <<"FontSize", <<"32">> >>, <<"PrimaryColour", <<"&H", "FFFF00">> >> >>

\* C28: the subtitle file add_captions writes for a caption set (entries
\* numbered from 1 in caption order, HH:MM:SS,mmm times, a blank line after
\* each entry) decodes to the same sequence of start, end and text, also for
\* texts with line breaks and for empty texts.
C28_SubtitleRoundTrip ==
    (fn_out # NoCall /\ fn_out.fn = "write_srt") =>
        LET decoded == ReadSrt(fn_out.value, 1)
        IN  /\ decoded.ok
            /\ decoded.captions =
                   [i \in 1..Len(fn_in.captions) |->
                       [start |-> fn_in.captions[i].start, end |-> fn_in.captions[i].end,
                        text |-> fn_in.captions[i].text]]
            /\ \A i \in 1..Len(fn_in.captions) :
                   \E n \in 1..Len(fn_out.value) : fn_out.value[n] = IndexLine(i)

(***************************************************************************)
(* Claims about the processing history and the statistics.                 *)
(***************************************************************************)
\* the features a run of process_video with options o used
FeaturesOf(o) ==
    (IF o.auto_caption THEN <<"captions">> ELSE <<>>)
        \o (IF o.meme_mode THEN <<"effects">> ELSE <<>>)

\* C31: every completed pipeline run appends exactly one processing-history
\* record that lists the features the run used, and no step ever changes or
\* removes a record the history already holds.
C31_RunAppendsHistoryRecord ==
    [][/\ (processing_status # "completed" /\ processing_status' = "completed") =>
              /\ Len(processing_history') = Len(processing_history) + 1
              /\ json_loads(processing_history'[Len(processing_history')].features_used)
                     = PyList(FeaturesOf(options))
       /\ Len(processing_history') >= Len(processing_history)
       /\ SubSeq(processing_history', 1, Len(processing_history)) = processing_history]_vars

\* no add_processing_record call is in progress
HistoryIdle == \A r \in Runs : hist_pc[r] = "idle"

\* the history rows that list a feature
RowsListing(feature) ==
    {i \in 1..Len(processing_history) :
        \E j \in 1..Len(json_loads(processing_history[i].features_used).body) :
            json_loads(processing_history[i].features_used).body[j] = feature}

\* C32: once the add_processing_record calls made so far have returned,
\* concurrent ones included, the statistics count as many videos as the
\* history has rows and, for every feature, as many uses as rows list it.
C32_StatisticsMatchHistory ==
    HistoryIdle =>
        /\ get_statistics(app_statistics).videos_processed = Len(processing_history)
        /\ \A feature \in Features :
               UsageOf(get_statistics(app_statistics).features_usage, feature)
                   = Cardinality(RowsListing(feature))

(***************************************************************************)
(* Claims about the status of the page.                                    *)
(***************************************************************************)
\* C39: once process_video has set processing_status to "processing", the
\* status eventually becomes "completed" or "error"; it does not stay
\* "processing" for ever
C39_StatusLeavesProcessing ==
    (processing_status = "processing") ~> (processing_status \in {"completed", "error"})

====
